---- MODULE Spec2Model ----
(***************************************************************************)
(* A model of indentscript.js: the Lexer (characters -> tokens with        *)
(* INDENT / DEDENT / NEWLINE synthesis), the recursive-descent Parser      *)
(* (tokens -> statement tree with opaque Expression nodes), the            *)
(* CodeGenerator (tree -> JavaScript text), IndentScript.transpile and      *)
(* IndentScript.transpileFile.                                             *)
(*                                                                         *)
(* Source text, token values and generated text are strings; one          *)
(* character is a string of length 1 and the JavaScript '' returned by     *)
(* peek() past the end is the empty string.  Positions (pos) are 0-based   *)
(* as in the source.                                                       *)
(***************************************************************************)
EXTENDS Integers, Sequences, FiniteSets, TLC

VARIABLES
    inputs,     \* the sources the client still has to hand to transpile
    phase,      \* position of the running transpile call
    lexer,      \* the call's Lexer object, with the locals of tokenize
    parser,     \* the call's Parser object, with the locals of its methods
    output,     \* what the call returned or raised
    history,    \* the sources transpiled so far, each with its outcome
    files,      \* the file system: what each path holds
    jobs,       \* the transpileFile calls the client still has to make
    job         \* the transpileFile call that is running

fileVars == <<files, jobs, job>>

vars == <<inputs, phase, lexer, parser, output, history, fileVars>>

(***************************************************************************)
(* Characters                                                              *)
(***************************************************************************)
Digits == {"0", "1", "2", "3", "4", "5", "6", "7", "8", "9"}

LowerCase == {"a", "b", "c", "d", "e", "f", "g", "h", "i", "j", "k", "l", "m",
              "n", "o", "p", "q", "r", "s", "t", "u", "v", "w", "x", "y", "z"}

UpperCase == {"A", "B", "C", "D", "E", "F", "G", "H", "I", "J", "K", "L", "M",
              "N", "O", "P", "Q", "R", "S", "T", "U", "V", "W", "X", "Y", "Z"}

\* the character ` (a string of the module cannot hold it on its own)
Backtick == SubSeq("`'", 1, 1)

\* s[i] of JavaScript for a 1-based i; '' outside the string
CharAt(s, i) == IF i >= 1 /\ i <= Len(s) THEN SubSeq(s, i, i) ELSE ""

isWhitespace(ch) == ch = " " \/ ch = "\t" \/ ch = "\r"

isNewline(ch) == ch = "\n"

isDigit(ch) == ch \in Digits

isAlpha(ch) == ch \in LowerCase \/ ch \in UpperCase \/ ch = "_" \/ ch = "$"

isAlphaNum(ch) == isAlpha(ch) \/ isDigit(ch)

(***************************************************************************)
(* Token and Lexer                                                         *)
(***************************************************************************)
\* The value of an INDENT or DEDENT token is a number in the source; it is
\* only ever interpolated into messages, so it is kept as its decimal text.
Token(type, value, line, col) ==
    [type |-> type, value |-> value, line |-> line, col |-> col]

\* new Lexer(code), together with the locals tokenize starts with
Lexer(code) ==
    [code |-> code, pos |-> 0, line |-> 1, col |-> 1, tokens |-> <<>>,
     indentStack |-> <<0>>, atLineStart |-> TRUE, done |-> FALSE]

Lexer_peek(lx, offset) == CharAt(lx.code, lx.pos + offset + 1)

\* advance(): past the end code[pos] is undefined, which is not '\n'
Lexer_advance(lx) ==
    IF CharAt(lx.code, lx.pos + 1) = "\n"
    THEN [lx EXCEPT !.pos = @ + 1, !.line = @ + 1, !.col = 1]
    ELSE [lx EXCEPT !.pos = @ + 1, !.col = @ + 1]

RECURSIVE Lexer_advanceN(_, _)
Lexer_advanceN(lx, n) ==
    IF n = 0 THEN lx ELSE Lexer_advanceN(Lexer_advance(lx), n - 1)

RECURSIVE skipWhitespace(_)
skipWhitespace(lx) ==
    IF lx.pos < Len(lx.code) /\ isWhitespace(Lexer_peek(lx, 0))
    THEN skipWhitespace(Lexer_advance(lx))
    ELSE lx

Lexer_push(lx, tok) == [lx EXCEPT !.tokens = Append(@, tok)]

\* readString, triple-quoted form: the loop of lines 77-85
RECURSIVE readTriple(_, _, _)
readTriple(lx, quote, value) ==
    IF lx.pos >= Len(lx.code) THEN [lx |-> lx, value |-> value]
    ELSE IF Lexer_peek(lx, 0) = quote /\ Lexer_peek(lx, 1) = quote
            /\ Lexer_peek(lx, 2) = quote
    THEN [lx |-> Lexer_advanceN(lx, 3), value |-> value]
    ELSE readTriple(Lexer_advance(lx), quote, value \o Lexer_peek(lx, 0))

\* readString, single-quoted form: the loop of lines 92-124
RECURSIVE readSingle(_, _, _, _)
readSingle(lx, quote, value, escaped) ==
    IF lx.pos >= Len(lx.code) THEN [lx |-> lx, value |-> value]
    ELSE LET ch == Lexer_peek(lx, 0) IN
         IF escaped
         THEN readSingle(Lexer_advance(lx), quote,
                         value \o (CASE ch = "n" -> "\n"
                                     [] ch = "t" -> "\t"
                                     [] ch = "r" -> "\r"
                                     [] OTHER -> ch),
                         FALSE)
         ELSE IF ch = "\\" THEN readSingle(Lexer_advance(lx), quote, value, TRUE)
         ELSE IF ch = quote THEN [lx |-> Lexer_advance(lx), value |-> value]
         ELSE readSingle(Lexer_advance(lx), quote, value \o ch, FALSE)

\* readString(quote), called with pos at the opening quote
readString(lx, quote) ==
    IF Lexer_peek(lx, 0) = quote /\ Lexer_peek(lx, 1) = quote
    THEN readTriple(Lexer_advanceN(lx, 3), quote, "")
    ELSE readSingle(Lexer_advance(lx), quote, "", FALSE)

\* readNumber, first loop (lines 133-145)
RECURSIVE readNumberDigits(_, _, _)
readNumberDigits(lx, value, hasDecimal) ==
    IF lx.pos >= Len(lx.code) THEN [lx |-> lx, value |-> value]
    ELSE LET ch == Lexer_peek(lx, 0) IN
         IF isDigit(ch)
         THEN readNumberDigits(Lexer_advance(lx), value \o ch, hasDecimal)
         ELSE IF ch = "." /\ ~hasDecimal /\ isDigit(Lexer_peek(lx, 1))
         THEN readNumberDigits(Lexer_advance(lx), value \o ch, TRUE)
         ELSE IF ch = "_"
         THEN readNumberDigits(Lexer_advance(lx), value, hasDecimal)
         ELSE [lx |-> lx, value |-> value]

\* readNumber, the digits of the exponent (lines 152-154)
RECURSIVE readExponentDigits(_, _)
readExponentDigits(lx, value) ==
    IF isDigit(Lexer_peek(lx, 0))
    THEN readExponentDigits(Lexer_advance(lx), value \o Lexer_peek(lx, 0))
    ELSE [lx |-> lx, value |-> value]

readNumber(lx) ==
    LET m == readNumberDigits(lx, "", FALSE) IN
    IF Lexer_peek(m.lx, 0) = "e" \/ Lexer_peek(m.lx, 0) = "E"
    THEN LET l1 == Lexer_advance(m.lx)
             v1 == m.value \o Lexer_peek(m.lx, 0)
             sign == Lexer_peek(l1, 0) = "+" \/ Lexer_peek(l1, 0) = "-"
             l2 == IF sign THEN Lexer_advance(l1) ELSE l1
             v2 == IF sign THEN v1 \o Lexer_peek(l1, 0) ELSE v1
         IN  readExponentDigits(l2, v2)
    ELSE m

RECURSIVE readIdentifierFrom(_, _)
readIdentifierFrom(lx, value) ==
    IF lx.pos < Len(lx.code) /\ isAlphaNum(Lexer_peek(lx, 0))
    THEN readIdentifierFrom(Lexer_advance(lx), value \o Lexer_peek(lx, 0))
    ELSE [lx |-> lx, value |-> value]

readIdentifier(lx) == readIdentifierFrom(lx, "")

keywords ==
    {"def", "class", "if", "else", "elif", "for", "while", "return",
     "import", "from", "in", "as", "with", "pass", "break", "continue",
     "print", "len", "range", "enumerate",
     "lambda", "async", "await", "try", "except", "finally", "raise",
     "assert", "del", "global", "nonlocal", "yield", "None", "True", "False",
     "and", "or", "not", "is", "function", "const", "let", "var", "this",
     "new", "typeof", "instanceof", "delete", "void", "super", "static",
     "get", "set", "extends", "implements", "interface", "package", "private",
     "protected", "public", "export", "default", "case", "switch", "do"}

threeCharOperators == {"===", "!==", "**=", "//=", ">>>", "<<=", ">>="}

twoCharOperators ==
    {"==", "!=", "<=", ">=", "&&", "||", "++", "--", "+=", "-=",
     "*=", "/=", "%=", "**", "//", "<<", ">>", "&=", "|=", "^=",
     "=>", "..", "?."}

oneCharOperators == {"+", "-", "*", "/", "%", "=", "<", ">", "!", "&", "|", "^", "~"}

brackets == {"(", ")", "{", "}", "[", "]"}

punctuation == {".", ",", ";", ":", "?", "@"}

(***************************************************************************)
(* Lexer.tokenize: one operator per branch of the main loop (lines         *)
(* 172-316); each is one whole iteration of the loop.                      *)
(***************************************************************************)
Top(stack) == stack[Len(stack)]

Pop(stack) == SubSeq(stack, 1, Len(stack) - 1)

\* lines 176-180: the leading whitespace of a line, space = 1, tab = 4
RECURSIVE readIndent(_, _)
readIndent(lx, indent) ==
    IF lx.pos < Len(lx.code) /\ isWhitespace(Lexer_peek(lx, 0))
    THEN readIndent(Lexer_advance(lx),
                    indent + (IF Lexer_peek(lx, 0) = " " THEN 1 ELSE 0)
                           + (IF Lexer_peek(lx, 0) = "\t" THEN 4 ELSE 0))
    ELSE [lx |-> lx, indent |-> indent]

\* lines 190-193 without line 192: the levels are closed, no DEDENT is emitted
RECURSIVE popQuietly(_, _)
popQuietly(lx, indent) ==
    IF Len(lx.indentStack) > 1 /\ indent < Top(lx.indentStack)
    THEN popQuietly([lx EXCEPT !.indentStack = Pop(@)], indent)
    ELSE lx

\* lines 190-193
RECURSIVE popDedents(_, _)
popDedents(lx, indent) ==
    IF Len(lx.indentStack) > 1 /\ indent < Top(lx.indentStack)
    THEN popDedents(
             Lexer_push([lx EXCEPT !.indentStack = Pop(@)],
                        Token("DEDENT", ToString(indent), lx.line, 1)),
             indent)
    ELSE lx

\* line 182 without the test for '#': a comment is indented like a statement
isBlankLineNoComment(lx) == isNewline(Lexer_peek(lx, 0)) \/ Lexer_peek(lx, 0) = ""

\* line 182 without the test for the line break: a line of whitespace is
\* indented like a statement
isBlankLineNoBreak(lx) == Lexer_peek(lx, 0) = "#" \/ Lexer_peek(lx, 0) = ""

\* line 182: the line is blank or holds a comment only
isBlankLine(lx) ==
    isNewline(Lexer_peek(lx, 0)) \/ Lexer_peek(lx, 0) = "#" \/ Lexer_peek(lx, 0) = ""

\* lines 173-198
tokenizeIndent(lx) ==
    LET r == readIndent(lx, 0)
        l1 == r.lx
        indent == r.indent
    IN  IF isBlankLine(l1) THEN l1
        ELSE IF indent > Top(l1.indentStack)
        THEN [Lexer_push([l1 EXCEPT !.indentStack = Append(@, indent)],
                         Token("INDENT", ToString(indent), l1.line, 1))
                EXCEPT !.atLineStart = FALSE]
        ELSE IF indent < Top(l1.indentStack)
        THEN [popDedents(l1, indent) EXCEPT !.atLineStart = FALSE]
        ELSE [l1 EXCEPT !.atLineStart = FALSE]

\* lines 207-214 without the test of line 208: every line break is a NEWLINE
tokenizeNewlineAlways(lx) ==
    LET l1 == skipWhitespace(lx)
    IN  [Lexer_advance(Lexer_push(l1, Token("NEWLINE", "\\n", l1.line, l1.col)))
            EXCEPT !.atLineStart = TRUE]

\* lines 207-214, after skipWhitespace
tokenizeNewline(lx) ==
    LET l1 == skipWhitespace(lx)
        l2 == IF Len(l1.tokens) > 0 /\ l1.tokens[Len(l1.tokens)].type # "NEWLINE"
              THEN Lexer_push(l1, Token("NEWLINE", "\\n", l1.line, l1.col))
              ELSE l1
    IN  [Lexer_advance(l2) EXCEPT !.atLineStart = TRUE]

\* lines 216-221
RECURSIVE skipComment(_)
skipComment(lx) ==
    IF lx.pos < Len(lx.code) /\ ~isNewline(Lexer_peek(lx, 0))
    THEN skipComment(Lexer_advance(lx))
    ELSE lx

tokenizeComment(lx) == skipComment(skipWhitespace(lx))

\* lines 223-244: FSTRING, STRING and TEMPLATE; the token carries the line the
\* lexer is on after the literal and the column it was on before it
tokenizeString(lx) ==
    LET l1 == skipWhitespace(lx)
        ch == Lexer_peek(l1, 0)
        startCol == l1.col
        isF == (ch = "f" \/ ch = "F")
        l2 == IF isF THEN Lexer_advance(l1) ELSE l1
        quote == Lexer_peek(l2, 0)
        strData == readString(l2, quote)
        type == IF isF THEN "FSTRING" ELSE IF ch = Backtick THEN "TEMPLATE" ELSE "STRING"
    IN  [Lexer_push(strData.lx, Token(type, strData.value, strData.lx.line, startCol))
            EXCEPT !.atLineStart = FALSE]

\* lines 246-251
tokenizeNumber(lx) ==
    LET l1 == skipWhitespace(lx)
        r == readNumber(l1)
    IN  [Lexer_push(r.lx, Token("NUMBER", r.value, r.lx.line, l1.col))
            EXCEPT !.atLineStart = FALSE]

\* lines 253-270
tokenizeWord(lx) ==
    LET l1 == skipWhitespace(lx)
        r == readIdentifier(l1)
        type == IF r.value \in keywords THEN "KEYWORD" ELSE "IDENTIFIER"
    IN  [Lexer_push(r.lx, Token(type, r.value, r.lx.line, l1.col))
            EXCEPT !.atLineStart = FALSE]

\* the operator at pos: longest of the three tables first, '' if none
operatorAt(lx) ==
    LET ch == Lexer_peek(lx, 0)
        threeChar == ch \o Lexer_peek(lx, 1) \o Lexer_peek(lx, 2)
        twoChar == ch \o Lexer_peek(lx, 1)
    IN  IF threeChar \in threeCharOperators THEN threeChar
        ELSE IF twoChar \in twoCharOperators THEN twoChar
        ELSE IF ch \in oneCharOperators THEN ch
        ELSE ""

\* lines 272-298
tokenizeOperator(lx) ==
    LET l1 == skipWhitespace(lx)
        op == operatorAt(l1)
        l2 == Lexer_advanceN(l1, Len(op))
    IN  [Lexer_push(l2, Token("OPERATOR", op, l2.line, l1.col))
            EXCEPT !.atLineStart = FALSE]

\* lines 300-312: BRACKET and PUNCTUATION, pushed before advance()
tokenizeMark(lx) ==
    LET l1 == skipWhitespace(lx)
        ch == Lexer_peek(l1, 0)
        type == IF ch \in brackets THEN "BRACKET" ELSE "PUNCTUATION"
    IN  [Lexer_advance(Lexer_push(l1, Token(type, ch, l1.line, l1.col)))
            EXCEPT !.atLineStart = FALSE]

\* lines 314-315 without the advance: the character stays where it is
tokenizeUnknownKept(lx) == [skipWhitespace(lx) EXCEPT !.atLineStart = FALSE]

\* lines 314-315: a character no rule knows is skipped
tokenizeUnknown(lx) ==
    [Lexer_advance(skipWhitespace(lx)) EXCEPT !.atLineStart = FALSE]

\* lines 318-321 left out: the open blocks stay open
popNone(lx) == lx

\* lines 318-321
RECURSIVE popAll(_)
popAll(lx) ==
    IF Len(lx.indentStack) > 1
    THEN popAll(Lexer_push([lx EXCEPT !.indentStack = Pop(@)],
                           Token("DEDENT", "0", lx.line, lx.col)))
    ELSE lx

\* lines 318-324 with line 323 first: EOF before the pending DEDENT tokens
tokenizeEndEarly(lx) ==
    LET l1 == skipWhitespace(lx)
    IN  [popAll(Lexer_push(l1, Token("EOF", "", l1.line, l1.col)))
            EXCEPT !.done = TRUE]

\* the loop is left (line 172 or the break of line 202), then lines 318-324
tokenizeEnd(lx) ==
    LET l1 == popAll(skipWhitespace(lx))
    IN  [Lexer_push(l1, Token("EOF", "", l1.line, l1.col)) EXCEPT !.done = TRUE]

\* which branch the next iteration of the main loop takes
tokenizeBranch(lx) ==
    IF lx.pos >= Len(lx.code) THEN "end"
    ELSE IF lx.atLineStart /\ isWhitespace(Lexer_peek(lx, 0)) THEN "indent"
    ELSE LET l1 == skipWhitespace(lx)
             ch == Lexer_peek(l1, 0)
         IN  IF l1.pos >= Len(l1.code) THEN "end"
             ELSE IF isNewline(ch) THEN "newline"
             ELSE IF ch = "#" THEN "comment"
             ELSE IF (ch = "f" \/ ch = "F")
                     /\ (Lexer_peek(l1, 1) = "\"" \/ Lexer_peek(l1, 1) = "'")
             THEN "string"
             ELSE IF ch = "\"" \/ ch = "'" \/ ch = Backtick THEN "string"
             ELSE IF isDigit(ch) THEN "number"
             ELSE IF isAlpha(ch) THEN "word"
             ELSE IF operatorAt(l1) # "" THEN "operator"
             ELSE IF ch \in brackets \/ ch \in punctuation THEN "mark"
             ELSE "unknown"

\* one iteration of the main loop of tokenize
tokenizeStep(lx) ==
    LET b == tokenizeBranch(lx) IN
    CASE b = "end" -> tokenizeEnd(lx)
      [] b = "indent" -> tokenizeIndent(lx)
      [] b = "newline" -> tokenizeNewline(lx)
      [] b = "comment" -> tokenizeComment(lx)
      [] b = "string" -> tokenizeString(lx)
      [] b = "number" -> tokenizeNumber(lx)
      [] b = "word" -> tokenizeWord(lx)
      [] b = "operator" -> tokenizeOperator(lx)
      [] b = "mark" -> tokenizeMark(lx)
      [] OTHER -> tokenizeUnknown(lx)

RECURSIVE tokenizeRun(_)
tokenizeRun(lx) == IF lx.done THEN lx ELSE tokenizeRun(tokenizeStep(lx))

\* new Lexer(code).tokenize()
tokenize(code) == tokenizeRun(Lexer(code)).tokens

(***************************************************************************)
(* Parser.  The Parser object is the record [tokens, pos]; st, msg and ret *)
(* carry how the running method ended: st = "ok" with its return value in  *)
(* ret, st = "throw" with the message of the Error in msg, or st = "hang"  *)
(* when a loop of the source has reached an iteration that changes         *)
(* nothing it reads (pos is the parser's only mutable field, so the same   *)
(* iteration then repeats for ever).  A method applied to a parser that    *)
(* has thrown or hangs leaves it as it is: that is the propagation of the  *)
(* exception through the callers.                                          *)
(*                                                                         *)
(* frames is the stack of the running methods' local variables, one record *)
(* per method: a method that returns an object literal of its locals keeps *)
(* them in the record it returns.                                          *)
(*                                                                         *)
(* null is Null for a node and "" for a name (the source tests both for    *)
(* truthiness only, and no name is empty).  An else-branch, an array in    *)
(* the source, is the record [type |-> "Block", body |-> statements].      *)
(***************************************************************************)
Null == [type |-> "Null"]

IsNull(node) == node.type = "Null"

\* a constructor that leaves pos as the last call left it
ParserStale(tokens) ==
    [tokens |-> tokens, pos |-> parser.pos, st |-> "ok", msg |-> "",
     ret |-> [type |-> "Null"], frames |-> <<>>]

Parser(tokens) ==
    [tokens |-> tokens, pos |-> 0, st |-> "ok", msg |-> "", ret |-> Null,
     frames |-> <<>>]

Ok(p) == p.st = "ok"

Return(p, value) == IF Ok(p) THEN [p EXCEPT !.ret = value] ELSE p

Throw(p, message) == [p EXCEPT !.st = "throw", !.msg = message, !.frames = <<>>]

Hang(p) == [p EXCEPT !.st = "hang", !.frames = <<>>]

\* a loop iteration that started at pos and has not moved
Progress(pos, p) == IF Ok(p) /\ p.pos = pos THEN Hang(p) ELSE p

Parser_peek(p) ==
    p.tokens[IF p.pos < Len(p.tokens) THEN p.pos + 1 ELSE Len(p.tokens)]

Parser_advance(p) == IF Ok(p) THEN [p EXCEPT !.pos = @ + 1] ELSE p

RECURSIVE skipNewlines(_)
skipNewlines(p) ==
    IF Ok(p) /\ Parser_peek(p).type = "NEWLINE"
    THEN skipNewlines(Parser_advance(p))
    ELSE p

\* lines 349-355; value = "" stands for the default value = null
expect(p, type, value) ==
    IF ~Ok(p) THEN p
    ELSE LET token == Parser_peek(p) IN
         IF token.type # type \/ (value # "" /\ token.value # value)
         THEN Throw(p, "Expected " \o type
                       \o (IF value # "" THEN " '" \o value \o "'" ELSE "")
                       \o " but got " \o token.type \o " '" \o token.value
                       \o "' at line " \o ToString(token.line) \o ":"
                       \o ToString(token.col))
         ELSE Return(Parser_advance(p), token)

\* if (this.peek().value === value) { then }
IfValue(p, value, then(_)) ==
    IF Ok(p) /\ Parser_peek(p).value = value THEN then(p) ELSE p

\* if (this.peek().type === type) { then }
IfType(p, type, then(_)) ==
    IF Ok(p) /\ Parser_peek(p).type = type THEN then(p) ELSE p

\* if (this.peek().value === value) this.advance()
advanceIf(p, value) == IfValue(p, value, Parser_advance)

\* entering a method whose local variables start as given
Enter(p, locals) == IF Ok(p) THEN [p EXCEPT !.frames = Append(@, locals)] ELSE p

Local(p) == p.frames[Len(p.frames)]

\* key = value on a local variable of the running method
Set(p, key, value) ==
    IF Ok(p) THEN [p EXCEPT !.frames[Len(p.frames)][key] = value] ELSE p

\* const key = <the call that has just returned>
Keep(p, key) == Set(p, key, p.ret)

\* const key = <the token that has just been returned>.value
KeepName(p, key) == Set(p, key, p.ret.value)

\* key.push(<the call that has just returned>)
Push(p, key) == Set(p, key, Append(Local(p)[key], p.ret))

PushName(p, key) == Set(p, key, Append(Local(p)[key], p.ret.value))

\* if (stmt) key.push(stmt)
PushStatement(p, key) == IF Ok(p) /\ ~IsNull(p.ret) THEN Push(p, key) ELSE p

\* return { <the local variables> }
Leave(p) ==
    IF Ok(p)
    THEN [p EXCEPT !.frames = SubSeq(@, 1, Len(@) - 1), !.ret = Local(p)]
    ELSE p

\* return <one local variable>
LeaveWith(p, key) ==
    IF Ok(p)
    THEN [p EXCEPT !.frames = SubSeq(@, 1, Len(@) - 1), !.ret = Local(p)[key]]
    ELSE p

\* node.key = value on the object that has just been returned
Mark(p, key, value) == IF Ok(p) THEN [p EXCEPT !.ret[key] = value] ELSE p

openBrackets == {"(", "[", "{"}

closeBrackets == {")", "]", "}"}

\* lines 959-965: depth after the brackets of a token
depthAfter(value, depth) ==
    depth + (IF value \in openBrackets THEN 1 ELSE 0)
          - (IF value \in closeBrackets THEN 1 ELSE 0)

\* lines 946-971
RECURSIVE parseExpressionLoop(_, _)
parseExpressionLoop(p, depth) ==
    LET token == Parser_peek(p)
        after == depthAfter(token.value, depth)
    IN  IF ~Ok(p) \/ token.type = "EOF" THEN p
        ELSE IF depth = 0 /\ token.type \in {"NEWLINE", "INDENT", "DEDENT"} THEN p
        ELSE IF depth = 0 /\ token.value = ":" /\ token.type = "PUNCTUATION" THEN p
        ELSE IF after < 0 THEN p
        ELSE IF after = 0 /\ token.value = "," /\ token.type = "PUNCTUATION" THEN p
        ELSE parseExpressionLoop(Push(Return(Parser_advance(p), token), "tokens"),
                                 after)

\* lines 942-977
parseExpression(p) ==
    Leave(parseExpressionLoop(Enter(p, [type |-> "Expression", tokens |-> <<>>]), 0))

\* lines 934-940
parseExpressionStatement(p) ==
    Leave(Keep(parseExpression(Enter(p, [type |-> "ExpressionStatement",
                                         expression |-> Null])),
               "expression"))

\* lines 477-479: ret is the token, its value the type
parseType(p) == expect(p, "IDENTIFIER", "")

\* lines 443-467: one parameter
parseParameter(p) ==
    LET param == Enter(p, [name |-> "", defaultValue |-> Null, spread |-> ""])
    IN  Leave(IF Parser_peek(p).value = "*"
              THEN KeepName(expect(IfValue(Set(Parser_advance(param),
                                               "spread", "array"),
                                           "*",
                                           LAMBDA q: Set(Parser_advance(q),
                                                         "spread", "dict")),
                                   "IDENTIFIER", ""),
                            "name")
              ELSE IfValue(KeepName(expect(param, "IDENTIFIER", ""), "name"),
                           "=",
                           LAMBDA q: Keep(parseExpression(Parser_advance(q)),
                                          "defaultValue")))

\* lines 442-472
RECURSIVE parseParametersLoop(_)
parseParametersLoop(p) ==
    IF ~Ok(p) \/ Parser_peek(p).value = ")" \/ Parser_peek(p).type = "EOF"
    THEN p
    ELSE parseParametersLoop(advanceIf(Push(parseParameter(p), "params"), ","))

\* lines 439-475
parseParameters(p) ==
    LeaveWith(parseParametersLoop(Enter(p, [params |-> <<>>])), "params")

\* lines 547-550 and 769-772: further identifiers, each after a comma
RECURSIVE parseNameList(_)
parseNameList(p) ==
    IfValue(p, ",",
            LAMBDA q: parseNameList(PushName(expect(Parser_advance(q),
                                                    "IDENTIFIER", ""),
                                             "variables")))

\* lines 798-803 and 833-838: alias = the identifier after 'as'
parseAlias(p, key) ==
    IfValue(p, "as",
            LAMBDA q: KeepName(expect(Parser_advance(q), "IDENTIFIER", ""), key))

\* lines 797-805: one module of an import statement
parseModule(p) ==
    Leave(parseAlias(KeepName(expect(Enter(p, [module |-> "", alias |-> ""]),
                                     "IDENTIFIER", ""),
                              "module"),
                     "alias"))

\* lines 796-812, from the end of an iteration on
RECURSIVE parseImportLoop(_)
parseImportLoop(p) ==
    IfValue(p, ",",
            LAMBDA q: parseImportLoop(Push(parseModule(Parser_advance(q)),
                                           "modules")))

\* lines 792-818
parseImport(p) ==
    LET start == Enter(p, [type |-> "ImportStatement", modules |-> <<>>])
    IN  Leave(parseImportLoop(Push(parseModule(Parser_advance(start)), "modules")))

\* lines 832-840: one name of a from-import statement
parseImported(p) ==
    Leave(parseAlias(KeepName(expect(Enter(p, [name |-> "", alias |-> ""]),
                                     "IDENTIFIER", ""),
                              "name"),
                     "alias"))

\* lines 831-847, from the end of an iteration on
RECURSIVE parseFromImportLoop(_)
parseFromImportLoop(p) ==
    IF ~Ok(p) \/ Parser_peek(p).value # "," THEN p
    ELSE LET next == Parser_advance(p)
         IN  IF Parser_peek(next).type \in {"NEWLINE", "EOF"} THEN next
             ELSE parseFromImportLoop(Push(parseImported(next), "imports"))

\* lines 827-848
parseImports(p) ==
    IF ~Ok(p) THEN p
    ELSE IF Parser_peek(p).value = "*"
    THEN Push(Return(Parser_advance(p), [name |-> "*", alias |-> ""]), "imports")
    ELSE parseFromImportLoop(Push(parseImported(p), "imports"))

\* lines 820-855
parseFromImport(p) ==
    LET start == Enter(p, [type |-> "FromImportStatement", module |-> "",
                           imports |-> <<>>])
        module == KeepName(expect(Parser_advance(start), "IDENTIFIER", ""),
                           "module")
    IN  Leave(parseImports(expect(module, "KEYWORD", "import")))

\* lines 664-671
parseRaise(p) ==
    LET start == Enter(p, [type |-> "RaiseStatement", error |-> Null])
    IN  Leave(Keep(parseExpression(Parser_advance(start)), "error"))

\* lines 673-688
parseAssert(p) ==
    LET start == Enter(p, [type |-> "AssertStatement", condition |-> Null,
                           message |-> Null])
        condition == Keep(parseExpression(Parser_advance(start)), "condition")
    IN  Leave(IfValue(condition, ",",
                      LAMBDA q: Keep(parseExpression(Parser_advance(q)),
                                     "message")))

\* lines 718-725
RECURSIVE parseLambdaParams(_)
parseLambdaParams(p) ==
    IF ~Ok(p) \/ Parser_peek(p).value = ":" \/ Parser_peek(p).type = "EOF"
    THEN p
    ELSE parseLambdaParams(
             Progress(p.pos,
                      advanceIf(IfType(p, "IDENTIFIER",
                                       LAMBDA q: PushName(expect(q, "IDENTIFIER", ""),
                                                          "params")),
                                ",")))

\* lines 714-737
parseLambda(p) ==
    LET start == Enter(p, [type |-> "LambdaExpression", params |-> <<>>,
                           body |-> Null])
        params == parseLambdaParams(Parser_advance(start))
        colon == IfValue(params, ":", LAMBDA q: expect(q, "PUNCTUATION", ":"))
    IN  Leave(Keep(parseExpression(colon), "body"))

\* lines 746-753
parseAwait(p) ==
    LET start == Enter(p, [type |-> "AwaitExpression", expression |-> Null])
    IN  Leave(Keep(parseExpression(Parser_advance(start)), "expression"))

\* lines 755-762
parseDelete(p) ==
    LET start == Enter(p, [type |-> "DeleteStatement", target |-> Null])
    IN  Leave(Keep(parseExpression(Parser_advance(start)), "target"))

\* lines 764-778
parseGlobal(p) ==
    LET start == Enter(p, [type |-> "GlobalStatement", variables |-> <<>>])
        first == PushName(expect(Parser_advance(start), "IDENTIFIER", ""),
                          "variables")
    IN  Leave(parseNameList(first))

\* lines 782-785 and 860-864: the value, when the line goes on
parseValue(p) ==
    IF ~Ok(p) \/ Parser_peek(p).type \in {"NEWLINE", "EOF"} THEN p
    ELSE Keep(parseExpression(p), "value")

\* lines 780-790
parseYield(p) ==
    LET start == Enter(p, [type |-> "YieldExpression", value |-> Null])
    IN  Leave(parseValue(Parser_advance(start)))

\* lines 857-869
parseReturn(p) ==
    LET start == Enter(p, [type |-> "ReturnStatement", value |-> Null])
    IN  Leave(parseValue(Parser_advance(start)))

\* lines 883-888: the arguments of print( ... )
RECURSIVE parsePrintParens(_)
parsePrintParens(p) ==
    IF ~Ok(p) \/ Parser_peek(p).value = ")" \/ Parser_peek(p).type = "EOF"
    THEN p
    ELSE parsePrintParens(
             Progress(p.pos,
                      advanceIf(Push(parseExpression(p), "arguments"), ",")))

\* lines 894-901: the arguments of print without parentheses
RECURSIVE parsePrintBare(_)
parsePrintBare(p) ==
    IF ~Ok(p) \/ Parser_peek(p).type \in {"NEWLINE", "EOF"}
       \/ Parser_peek(p).value = ":"
    THEN p
    ELSE IfValue(Push(parseExpression(p), "arguments"), ",",
                 LAMBDA q: parsePrintBare(Parser_advance(q)))

\* lines 877-902
parseArguments(p) ==
    IF Ok(p) /\ Parser_peek(p).value = "("
    THEN advanceIf(parsePrintParens(Parser_advance(p)), ")")
    ELSE parsePrintBare(p)

\* lines 871-908
parsePrint(p) ==
    LET start == Enter(p, [type |-> "PrintStatement", arguments |-> <<>>])
    IN  Leave(parseArguments(Parser_advance(start)))

(***************************************************************************)
(* Parser: the statements that hold blocks                                 *)
(***************************************************************************)
RECURSIVE parseStatement(_), parseBlock(_), parseBlockLoop(_),
          parseFunctionDef(_), parseClassDef(_), parseClassLoop(_),
          parseForLoop(_), parseIfStatement(_), parseWhileLoop(_),
          parseTryExcept(_), parseHandlers(_), parseWith(_), parseAsync(_)

\* lines 921-925
parseBlockLoop(p) ==
    IF ~Ok(p) \/ Parser_peek(p).type \in {"DEDENT", "EOF"} THEN p
    ELSE parseBlockLoop(
             Progress(p.pos,
                      skipNewlines(PushStatement(parseStatement(p), "statements"))))

\* lines 913-931, after skipNewlines
parseBlockAt(p) ==
    LET start == Enter(p, [statements |-> <<>>])
    IN  LeaveWith(IF Parser_peek(p).type # "INDENT"
                  THEN PushStatement(parseStatement(start), "statements")
                  ELSE IfType(parseBlockLoop(Parser_advance(start)), "DEDENT",
                              Parser_advance),
                  "statements")

\* lines 910-932
parseBlock(p) == IF Ok(p) THEN parseBlockAt(skipNewlines(p)) ELSE p

\* lines 418-422
parseReturnType(p) ==
    IF Ok(p) /\ Parser_peek(p).type = "OPERATOR" /\ Parser_peek(p).value = "->"
    THEN KeepName(parseType(Parser_advance(p)), "returnType")
    ELSE p

\* lines 410-437; isAsync and decorator are the fields that parseAsync and
\* parseClassDef add to the object
parseFunctionDef(p) ==
    LET start == Enter(p, [type |-> "FunctionDeclaration", name |-> "",
                           params |-> <<>>, returnType |-> "", body |-> <<>>,
                           isAsync |-> FALSE, decorator |-> ""])
        name == KeepName(expect(Parser_advance(start), "IDENTIFIER", ""), "name")
        params == Keep(parseParameters(expect(name, "BRACKET", "(")), "params")
        returnType == parseReturnType(expect(params, "BRACKET", ")"))
    IN  Leave(Keep(parseBlock(advanceIf(returnType, ":")), "body"))

\* lines 534-539: ret is the token of the name
parseDecorator(p) ==
    skipNewlines(expect(expect(p, "PUNCTUATION", "@"), "IDENTIFIER", ""))

\* lines 508-512, after parseDecorator
parseDecorated(p) ==
    IfValue(p, "def",
            LAMBDA q: Push(Mark(parseFunctionDef(q), "decorator", q.ret.value),
                           "methods"))

\* lines 505-517
parseMember(p) ==
    IF Parser_peek(p).value = "def" THEN Push(parseFunctionDef(p), "methods")
    ELSE IF Parser_peek(p).value = "@" THEN parseDecorated(parseDecorator(p))
    ELSE PushStatement(parseStatement(p), "properties")

\* lines 504-519
parseClassLoop(p) ==
    IF ~Ok(p) \/ Parser_peek(p).type \in {"DEDENT", "EOF"} THEN p
    ELSE parseClassLoop(Progress(p.pos, skipNewlines(parseMember(p))))

\* lines 485-490
parseSuperClass(p) ==
    IfValue(p, "(",
            LAMBDA q: expect(KeepName(expect(Parser_advance(q), "IDENTIFIER", ""),
                                      "superClass"),
                             "BRACKET", ")"))

\* lines 481-532
parseClassDef(p) ==
    LET start == Enter(p, [type |-> "ClassDeclaration", name |-> "",
                           superClass |-> "", methods |-> <<>>,
                           properties |-> <<>>])
        name == KeepName(expect(Parser_advance(start), "IDENTIFIER", ""), "name")
        colon == skipNewlines(advanceIf(parseSuperClass(name), ":"))
        indent == IfType(colon, "INDENT", LAMBDA q: expect(q, "INDENT", ""))
    IN  Leave(IfType(parseClassLoop(indent), "DEDENT", Parser_advance))

\* lines 541-567
parseForLoop(p) ==
    LET start == Enter(p, [type |-> "ForInLoop", variables |-> <<>>,
                           iterable |-> Null, body |-> <<>>])
        first == PushName(expect(Parser_advance(start), "IDENTIFIER", ""),
                          "variables")
        in == expect(parseNameList(first), "KEYWORD", "in")
        iterable == Keep(parseExpression(in), "iterable")
    IN  Leave(Keep(parseBlock(advanceIf(iterable, ":")), "body"))

\* lines 579-588
parseAlternate(p) ==
    IF ~Ok(p) THEN p
    ELSE IF Parser_peek(p).value = "elif"
    THEN Keep(parseIfStatement(p), "alternate")
    ELSE IF Parser_peek(p).value = "else"
    THEN Keep(Leave(Keep(parseBlock(advanceIf(Parser_advance(
                                        Enter(p, [type |-> "Block", body |-> <<>>])),
                                    ":")),
                         "body")),
              "alternate")
    ELSE p

\* lines 569-596
parseIfStatement(p) ==
    LET start == Enter(p, [type |-> "IfStatement", condition |-> Null,
                           consequent |-> <<>>, alternate |-> Null])
        condition == Keep(parseExpression(Parser_advance(start)), "condition")
        consequent == Keep(parseBlock(advanceIf(condition, ":")), "consequent")
    IN  Leave(parseAlternate(consequent))

\* lines 598-613
parseWhileLoop(p) ==
    LET start == Enter(p, [type |-> "WhileLoop", condition |-> Null,
                           body |-> <<>>])
        condition == Keep(parseExpression(Parser_advance(start)), "condition")
    IN  Leave(Keep(parseBlock(advanceIf(condition, ":")), "body"))

\* lines 631-638
parseErrorType(p) ==
    IfType(p, "IDENTIFIER",
           LAMBDA q: parseAlias(KeepName(expect(q, "IDENTIFIER", ""), "errorType"),
                                "errorName"))

\* lines 625-645: one except clause
parseHandler(p) ==
    LET start == Enter(p, [errorType |-> "", errorName |-> "", body |-> <<>>])
        head == parseErrorType(Parser_advance(start))
    IN  Leave(Keep(parseBlock(advanceIf(head, ":")), "body"))

\* lines 624-645
parseHandlers(p) ==
    IfValue(p, "except", LAMBDA q: parseHandlers(Push(parseHandler(q), "handlers")))

\* lines 648-654
parseFinally(p) ==
    IfValue(p, "finally",
            LAMBDA q: Keep(Leave(Keep(parseBlock(advanceIf(Parser_advance(
                                          Enter(q, [type |-> "Block",
                                                    body |-> <<>>])),
                                      ":")),
                                      "body")),
                           "finallyBlock"))

\* lines 615-662
parseTryExcept(p) ==
    LET start == Enter(p, [type |-> "TryStatement", tryBlock |-> <<>>,
                           handlers |-> <<>>, finallyBlock |-> Null])
        tryBlock == Keep(parseBlock(advanceIf(Parser_advance(start), ":")),
                         "tryBlock")
    IN  Leave(parseFinally(parseHandlers(tryBlock)))

\* lines 690-712
parseWith(p) ==
    LET start == Enter(p, [type |-> "WithStatement", context |-> Null,
                           alias |-> "", body |-> <<>>])
        context == Keep(parseExpression(Parser_advance(start)), "context")
        alias == parseAlias(context, "alias")
    IN  Leave(Keep(parseBlock(advanceIf(alias, ":")), "body"))

\* lines 739-744
parseAsync(p) == Mark(parseFunctionDef(Parser_advance(p)), "isAsync", TRUE)

\* lines 376-407, after skipNewlines
parseStatementAt(p) ==
    LET token == Parser_peek(p)
        v == token.value
    IN  IF token.type = "EOF" THEN Return(p, Null)
        ELSE IF token.type # "KEYWORD" THEN parseExpressionStatement(p)
        ELSE CASE v = "def" -> parseFunctionDef(p)
               [] v = "class" -> parseClassDef(p)
               [] v = "for" -> parseForLoop(p)
               [] v = "if" -> parseIfStatement(p)
               [] v = "while" -> parseWhileLoop(p)
               [] v = "return" -> parseReturn(p)
               [] v = "import" -> parseImport(p)
               [] v = "from" -> parseFromImport(p)
               [] v = "try" -> parseTryExcept(p)
               [] v = "raise" -> parseRaise(p)
               [] v = "assert" -> parseAssert(p)
               [] v = "with" -> parseWith(p)
               [] v = "pass" -> Return(Parser_advance(p), [type |-> "PassStatement"])
               [] v = "break" -> Return(Parser_advance(p), [type |-> "BreakStatement"])
               [] v = "continue" ->
                      Return(Parser_advance(p), [type |-> "ContinueStatement"])
               [] v = "lambda" -> parseLambda(p)
               [] v = "async" -> parseAsync(p)
               [] v = "await" -> parseAwait(p)
               [] v = "del" -> parseDelete(p)
               [] v = "global" -> parseGlobal(p)
               [] v = "yield" -> parseYield(p)
               [] v = "print" -> parsePrint(p)
               [] OTHER -> parseExpressionStatement(p)

\* lines 374-408
parseStatement(p) == IF Ok(p) THEN parseStatementAt(skipNewlines(p)) ELSE p

(***************************************************************************)
(* Parser.parse.  The bottom frame holds the statements array of parse;    *)
(* parse has returned when no frame is left.                               *)
(***************************************************************************)
\* new Parser(tokens), and lines 358-359 of parse
parseStart(tokens) ==
    skipNewlines(Enter(Parser(tokens), [type |-> "Program", body |-> <<>>]))

\* lines 361-371: one iteration of the loop of parse, or leaving it
parseIteration(p) ==
    IF Parser_peek(p).type = "EOF" THEN Leave(p)
    ELSE Progress(p.pos, skipNewlines(PushStatement(parseStatement(p), "body")))

RECURSIVE parseRun(_)
parseRun(p) ==
    IF ~Ok(p) \/ p.frames = <<>> THEN p ELSE parseRun(parseIteration(p))

\* new Parser(tokens).parse(): ret is the Program when st = "ok"
parse(tokens) == parseRun(parseStart(tokens))

(***************************************************************************)
(* Strings of the generated text                                           *)
(***************************************************************************)
\* the characters String.prototype.trim removes, among those a source holds
trimmed == {" ", "\t", "\n", "\r", "\f"}

RECURSIVE trimStart(_)
trimStart(s) ==
    IF Len(s) > 0 /\ CharAt(s, 1) \in trimmed THEN trimStart(SubSeq(s, 2, Len(s)))
    ELSE s

RECURSIVE trimEnd(_)
trimEnd(s) ==
    IF Len(s) > 0 /\ CharAt(s, Len(s)) \in trimmed
    THEN trimEnd(SubSeq(s, 1, Len(s) - 1))
    ELSE s

trim(s) == trimEnd(trimStart(s))

\* items.join(sep)
RECURSIVE join(_, _)
join(items, sep) ==
    IF Len(items) = 0 THEN ""
    ELSE IF Len(items) = 1 THEN items[1]
    ELSE items[1] \o sep \o join(Tail(items), sep)

\* value.replace(/"/g, '\\"')
RECURSIVE escapeQuotes(_)
escapeQuotes(s) ==
    IF Len(s) = 0 THEN ""
    ELSE (IF CharAt(s, 1) = "\"" THEN "\\\"" ELSE CharAt(s, 1))
         \o escapeQuotes(SubSeq(s, 2, Len(s)))

\* the index of the first ch in s at or after i, 0 if there is none
RECURSIVE indexFrom(_, _, _)
indexFrom(s, ch, i) ==
    IF i > Len(s) THEN 0
    ELSE IF CharAt(s, i) = ch THEN i
    ELSE indexFrom(s, ch, i + 1)

\* line 1336 without the replace
keepPlaceholders(s, i) == SubSeq(s, i, Len(s))

\* value.replace(/\{([^}]+)\}/g, '${$1}'), scanning from i: a match is a '{',
\* one or more characters other than '}', and the first '}' after them
RECURSIVE replacePlaceholders(_, _)
replacePlaceholders(s, i) ==
    IF i > Len(s) THEN ""
    ELSE LET close == indexFrom(s, "}", i + 1) IN
         IF CharAt(s, i) = "{" /\ close > i + 1
         THEN "${" \o SubSeq(s, i + 1, close - 1) \o "}"
              \o replacePlaceholders(s, close + 1)
         ELSE CharAt(s, i) \o replacePlaceholders(s, i + 1)

(***************************************************************************)
(* CodeGenerator.generateExpression                                        *)
(***************************************************************************)
pythonMethods ==
    [append |-> "push", extend |-> "push", upper |-> "toUpperCase",
     lower |-> "toLowerCase", strip |-> "trim", lstrip |-> "trimStart",
     rstrip |-> "trimEnd", startswith |-> "startsWith", endswith |-> "endsWith",
     find |-> "indexOf", index |-> "indexOf", keys |-> "keys",
     values |-> "values", items |-> "entries"]

\* pythonMethods is an object literal: a name it does not define is looked up
\* on Object.prototype, whose functions are truthy and print as native code
objectPrototype ==
    {"constructor", "toString", "toLocaleString", "valueOf", "hasOwnProperty",
     "isPrototypeOf", "propertyIsEnumerable", "__defineGetter__",
     "__defineSetter__", "__lookupGetter__", "__lookupSetter__"}

\* what result += pythonMethods[name] appends; '' when the lookup is falsy
pythonMethod(name) ==
    IF name \in DOMAIN pythonMethods THEN pythonMethods[name]
    ELSE IF name = "constructor" THEN "function Object() { [native code] }"
    ELSE IF name \in objectPrototype
    THEN "function " \o name \o "() { [native code] }"
    ELSE IF name = "__proto__" THEN "[object Object]"
    ELSE ""

\* lines 1380-1385 (and 1398-1403, 1436-1441): the tokens of a call up to the
\* parenthesis that closes it; i is 1-based here
RECURSIVE collectArguments(_, _, _, _)
collectArguments(tokens, i, depth, args) ==
    IF i <= Len(tokens) /\ depth > 0
    THEN LET d1 == IF tokens[i].value = "(" THEN depth + 1 ELSE depth
             d2 == IF tokens[i].value = ")" THEN d1 - 1 ELSE d1
         IN  collectArguments(tokens, i + 1, d2,
                              IF d2 > 0 THEN Append(args, tokens[i]) ELSE args)
    ELSE [i |-> i, tokens |-> args]

\* lines 1406-1420: the token runs between the ',' tokens, empty runs dropped
RECURSIVE splitArguments(_, _, _)
splitArguments(tokens, i, currentArg) ==
    IF i > Len(tokens)
    THEN (IF Len(currentArg) > 0 THEN <<currentArg>> ELSE <<>>)
    ELSE IF tokens[i].value = ","
    THEN (IF Len(currentArg) > 0 THEN <<currentArg>> ELSE <<>>)
         \o splitArguments(tokens, i + 1, <<>>)
    ELSE splitArguments(tokens, i + 1, Append(currentArg, tokens[i]))

\* lambdaTokens.findIndex(t => t.value === ':'), 0-based, -1 if none
RECURSIVE findColon(_, _)
findColon(tokens, i) ==
    IF i > Len(tokens) THEN -1
    ELSE IF tokens[i].value = ":" THEN i - 1
    ELSE findColon(tokens, i + 1)

\* array.slice(from, to) for 0-based from >= 0 and any to
slice(items, from, to) ==
    LET end == IF to < 0 THEN Len(items) + to ELSE to
    IN  SubSeq(items, from + 1, IF end > Len(items) THEN Len(items) ELSE end)

\* the values of the IDENTIFIER tokens
RECURSIVE identifierValues(_)
identifierValues(tokens) ==
    IF Len(tokens) = 0 THEN <<>>
    ELSE (IF tokens[1].type = "IDENTIFIER" THEN <<tokens[1].value>> ELSE <<>>)
         \o identifierValues(Tail(tokens))

RECURSIVE generateTokens(_, _, _), generateExpressionTokens(_)

\* lines 1422-1428
rangeText(args) ==
    IF Len(args) = 1
    THEN "Array.from({length: " \o args[1] \o "}, (_, i) => i)"
    ELSE IF Len(args) = 2
    THEN "Array.from({length: " \o args[2] \o " - " \o args[1]
         \o "}, (_, i) => i + " \o args[1] \o ")"
    ELSE IF Len(args) = 3
    THEN "Array.from({length: Math.ceil((" \o args[2] \o " - " \o args[1]
         \o ") / " \o args[3] \o ")}, (_, i) => " \o args[1] \o " + i * "
         \o args[3] \o ")"
    ELSE ""

\* the loop of lines 1332-1503; i is the 1-based index of the current token
generateTokens(tokens, i, result) ==
    IF i > Len(tokens) THEN result
    ELSE LET token == tokens[i]
             v == token.value
             hasCall == i + 1 <= Len(tokens) /\ tokens[i + 1].value = "("
             call == collectArguments(tokens, i + 2, 1, <<>>)
             callText == generateExpressionTokens(call.tokens)
             parts == splitArguments(call.tokens, 1, <<>>)
             rangeArgs == [k \in 1..Len(parts) |-> generateExpressionTokens(parts[k])]
             lambdaTokens == SubSeq(tokens, i + 1, Len(tokens))
             colonIndex == findColon(lambdaTokens, 1)
             params == join(identifierValues(slice(lambdaTokens, 0, colonIndex)), ", ")
             body == generateExpressionTokens(
                         slice(lambdaTokens, colonIndex + 1, Len(lambdaTokens)))
             isMethod == i + 1 <= Len(tokens) /\ tokens[i + 1].type = "IDENTIFIER"
                         /\ pythonMethod(tokens[i + 1].value) # ""
         IN
         CASE token.type = "FSTRING" ->
                generateTokens(tokens, i + 1,
                    result \o Backtick \o replacePlaceholders(v, 1) \o Backtick)
           [] token.type = "STRING" ->
                generateTokens(tokens, i + 1,
                    result \o "\"" \o escapeQuotes(v) \o "\"")
           [] token.type = "TEMPLATE" ->
                generateTokens(tokens, i + 1, result \o Backtick \o v \o Backtick)
           [] token.type = "KEYWORD" ->
                (CASE v = "None" -> generateTokens(tokens, i + 1, result \o "null")
                   [] v = "True" -> generateTokens(tokens, i + 1, result \o "true")
                   [] v = "False" -> generateTokens(tokens, i + 1, result \o "false")
                   [] v = "and" -> generateTokens(tokens, i + 1, result \o " && ")
                   [] v = "or" -> generateTokens(tokens, i + 1, result \o " || ")
                   [] v = "not" -> generateTokens(tokens, i + 1, result \o "!")
                   [] v = "is" -> generateTokens(tokens, i + 1, result \o " === ")
                   [] v = "in" -> generateTokens(tokens, i + 1, result \o " in ")
                   [] v = "lambda" -> result \o "(" \o params \o ") => " \o body
                   [] v = "len" ->
                        IF hasCall
                        THEN generateTokens(tokens, call.i,
                                            result \o callText \o ".length")
                        ELSE generateTokens(tokens, i + 1, result \o "length")
                   [] v = "range" ->
                        IF hasCall
                        THEN generateTokens(tokens, call.i,
                                            result \o rangeText(rangeArgs))
                        ELSE generateTokens(tokens, i + 2, result)
                   [] v = "enumerate" ->
                        IF hasCall
                        THEN generateTokens(tokens, call.i,
                                 result \o callText
                                 \o ".map((item, index) => [index, item])")
                        ELSE generateTokens(tokens, i + 2, result)
                   [] OTHER -> generateTokens(tokens, i + 1, result \o v))
           [] token.type = "IDENTIFIER" ->
                generateTokens(tokens, i + 1,
                               result \o (IF v = "self" THEN "this" ELSE v))
           [] token.type = "PUNCTUATION" /\ v = "." ->
                IF isMethod
                THEN generateTokens(tokens, i + 2,
                         result \o v \o pythonMethod(tokens[i + 1].value))
                ELSE generateTokens(tokens, i + 1, result \o v)
           [] token.type = "OPERATOR" ->
                (CASE v = "**" -> generateTokens(tokens, i + 1, result \o " ** ")
                   [] v = "//" ->
                        "Math.floor(" \o result \o " / "
                        \o generateExpressionTokens(SubSeq(tokens, i + 1, Len(tokens)))
                        \o ")"
                   [] OTHER -> generateTokens(tokens, i + 1, result \o v))
           [] OTHER -> generateTokens(tokens, i + 1, result \o v)

\* generateExpression({type: 'Expression', tokens})
generateExpressionTokens(tokens) == trim(generateTokens(tokens, 1, ""))

\* lines 1326-1506
generateExpression(node) ==
    IF IsNull(node) THEN "" ELSE generateExpressionTokens(node.tokens)

(***************************************************************************)
(* CodeGenerator: statements.  A generate method takes the generator's     *)
(* indentLevel and gives back the text it returns and the indentLevel it   *)
(* leaves.                                                                 *)
(***************************************************************************)
Generated(text, indentLevel) == [text |-> text, indentLevel |-> indentLevel]

\* '  '.repeat(indentLevel); repeat raises a RangeError for a negative count
RECURSIVE repeat(_, _)
repeat(s, count) == IF count <= 0 THEN "" ELSE s \o repeat(s, count - 1)

indent(indentLevel) == repeat("  ", indentLevel)

\* lines 1059-1066 (and 1102-1108)
generateParam(param) ==
    IF param.spread = "array" THEN "..." \o param.name
    ELSE IF param.spread = "dict" THEN "..." \o param.name
    ELSE IF ~IsNull(param.defaultValue)
    THEN param.name \o " = " \o generateExpression(param.defaultValue)
    ELSE param.name

generateParams(params) == [k \in 1..Len(params) |-> generateParam(params[k])]

\* line 1109 left out
keepSelf(texts) == texts

\* line 1109: .filter(p => p !== 'self')
RECURSIVE filterSelf(_)
filterSelf(texts) ==
    IF Len(texts) = 0 THEN <<>>
    ELSE (IF texts[1] # "self" THEN <<texts[1]>> ELSE <<>>) \o filterSelf(Tail(texts))

RECURSIVE generateStatement(_, _), generateBody(_, _, _), generateFunction(_, _),
          generateClass(_, _), generateMethods(_, _, _), generateForIn(_, _),
          generateIf(_, _), generateWhile(_, _), generateTry(_, _),
          generateHandlers(_, _, _), generateWith(_, _)

\* for (const stmt of body) { code = generateStatement(stmt);
\*                            if (code) result += code + '\n'; }
generateBody(body, result, indentLevel) ==
    IF Len(body) = 0 THEN Generated(result, indentLevel)
    ELSE LET code == generateStatement(body[1], indentLevel)
         IN  generateBody(Tail(body),
                          IF code.text # "" THEN result \o code.text \o "\n"
                          ELSE result,
                          code.indentLevel)

\* the shape of a block without the indentLevel-- before the closing brace
generateBracedOpen(head, body, indentLevel) ==
    LET inner == generateBody(body, head, indentLevel + 1)
    IN  Generated(inner.text \o indent(inner.indentLevel) \o "}",
                  inner.indentLevel)

\* the shape every block takes: indentLevel++, the body, indentLevel--,
\* indent() + '}'
generateBraced(head, body, indentLevel) ==
    LET inner == generateBody(body, head, indentLevel + 1)
    IN  Generated(inner.text \o indent(inner.indentLevel - 1) \o "}",
                  inner.indentLevel - 1)

\* lines 1058-1081
generateFunction(node, indentLevel) ==
    generateBraced(indent(indentLevel)
                   \o (IF node.isAsync THEN "async " ELSE "")
                   \o "function " \o node.name \o "("
                   \o join(generateParams(node.params), ", ") \o ") {\n",
                   node.body, indentLevel)

\* lines 1093-1121
generateMethods(methods, result, indentLevel) ==
    IF Len(methods) = 0 THEN Generated(result, indentLevel)
    ELSE LET method == methods[1]
             methodName == IF method.name = "__init__" THEN "constructor"
                           ELSE method.name
             staticKeyword == IF method.decorator = "staticmethod" THEN "static "
                              ELSE ""
             getterKeyword == IF method.decorator = "property" THEN "get " ELSE ""
             params == join(filterSelf(generateParams(method.params)), ", ")
             code == generateBraced(result \o indent(indentLevel) \o staticKeyword
                                    \o getterKeyword \o methodName
                                    \o "(" \o params \o ") {\n",
                                    method.body, indentLevel)
         IN  generateMethods(Tail(methods), code.text \o "\n\n", code.indentLevel)

\* lines 1083-1126
generateClass(node, indentLevel) ==
    LET head == indent(indentLevel) \o "class " \o node.name
                \o (IF node.superClass # "" THEN " extends " \o node.superClass
                    ELSE "")
                \o " {\n"
        properties == generateBody(node.properties, head, indentLevel + 1)
        methods == generateMethods(node.methods, properties.text,
                                   properties.indentLevel)
    IN  Generated(methods.text \o indent(methods.indentLevel - 1) \o "}",
                  methods.indentLevel - 1)

\* lines 1128-1160
generateForIn(node, indentLevel) ==
    LET iterable == generateExpression(node.iterable)
        target == IF Len(node.variables) = 1 THEN node.variables[1]
                  ELSE "[" \o join(node.variables, ", ") \o "]"
    IN  generateBraced(indent(indentLevel) \o "for (const " \o target \o " of "
                       \o iterable \o ") {\n",
                       node.body, indentLevel)

\* lines 1162-1193 without the trim of line 1188: the nested if keeps its
\* indentation after else
generateIfUntrimmed(node, indentLevel) ==
    LET condition == generateExpression(node.condition)
        consequent == generateBraced(indent(indentLevel) \o "if (" \o condition
                                     \o ") {\n",
                                     node.consequent, indentLevel)
        elseIf == generateIf(node.alternate, consequent.indentLevel)
    IN  IF IsNull(node.alternate) THEN consequent
        ELSE IF node.alternate.type = "Block"
        THEN generateBraced(consequent.text \o " else {\n", node.alternate.body,
                            consequent.indentLevel)
        ELSE Generated(consequent.text \o " else " \o elseIf.text,
                       elseIf.indentLevel)

\* lines 1162-1193
generateIf(node, indentLevel) ==
    LET condition == generateExpression(node.condition)
        consequent == generateBraced(indent(indentLevel) \o "if (" \o condition
                                     \o ") {\n",
                                     node.consequent, indentLevel)
        elseIf == generateIf(node.alternate, consequent.indentLevel)
    IN  IF IsNull(node.alternate) THEN consequent
        ELSE IF node.alternate.type = "Block"
        THEN generateBraced(consequent.text \o " else {\n", node.alternate.body,
                            consequent.indentLevel)
        ELSE Generated(consequent.text \o " else " \o trim(elseIf.text),
                       elseIf.indentLevel)

\* lines 1195-1208
generateWhile(node, indentLevel) ==
    generateBraced(indent(indentLevel) \o "while ("
                   \o generateExpression(node.condition) \o ") {\n",
                   node.body, indentLevel)

\* lines 1222-1234
generateHandlers(handlers, result, indentLevel) ==
    IF Len(handlers) = 0 THEN Generated(result, indentLevel)
    ELSE LET errorName == IF handlers[1].errorName # "" THEN handlers[1].errorName
                          ELSE "error"
             code == generateBraced(result \o " catch (" \o errorName \o ") {\n",
                                    handlers[1].body, indentLevel)
         IN  generateHandlers(Tail(handlers), code.text, code.indentLevel)

\* lines 1210-1250
generateTry(node, indentLevel) ==
    LET tryBlock == generateBraced(indent(indentLevel) \o "try {\n",
                                   node.tryBlock, indentLevel)
        handlers == generateHandlers(node.handlers, tryBlock.text,
                                     tryBlock.indentLevel)
    IN  IF IsNull(node.finallyBlock) THEN handlers
        ELSE generateBraced(handlers.text \o " finally {\n",
                            node.finallyBlock.body, handlers.indentLevel)

\* lines 1252-1268
generateWith(node, indentLevel) ==
    generateBraced(indent(indentLevel) \o "{\n" \o indent(indentLevel + 1)
                   \o "const " \o (IF node.alias # "" THEN node.alias ELSE "ctx")
                   \o " = " \o generateExpression(node.context) \o ";\n",
                   node.body, indentLevel)

\* lines 1270-1275
generateReturn(node, indentLevel) ==
    IF IsNull(node.value) THEN indent(indentLevel) \o "return;"
    ELSE indent(indentLevel) \o "return " \o generateExpression(node.value) \o ";"

generateRaise(node, indentLevel) ==
    indent(indentLevel) \o "throw " \o generateExpression(node.error) \o ";"

\* lines 1281-1285
generateAssert(node, indentLevel) ==
    indent(indentLevel) \o "if (!(" \o generateExpression(node.condition)
    \o ")) throw new Error("
    \o (IF ~IsNull(node.message) THEN generateExpression(node.message)
        ELSE "\"Assertion failed\"")
    \o ");"

\* lines 1287-1290
generatePrint(node, indentLevel) ==
    indent(indentLevel) \o "console.log("
    \o join([k \in 1..Len(node.arguments) |->
                 generateExpression(node.arguments[k])], ", ")
    \o ");"

\* lines 1292-1300
generateImport(node, indentLevel) ==
    indent(indentLevel)
    \o join([k \in 1..Len(node.modules) |->
                 IF node.modules[k].alias # ""
                 THEN "import * as " \o node.modules[k].alias \o " from '"
                      \o node.modules[k].module \o "';"
                 ELSE "import " \o node.modules[k].module \o " from '"
                      \o node.modules[k].module \o "';"],
            "\n" \o indent(indentLevel))

\* lines 1302-1318
generateFromImport(node, indentLevel) ==
    LET imports ==
            join([k \in 1..Len(node.imports) |->
                      IF node.imports[k].name = "*"
                      THEN "* from '" \o node.module \o "'"
                      ELSE IF node.imports[k].alias # ""
                      THEN node.imports[k].name \o " as " \o node.imports[k].alias
                      ELSE node.imports[k].name], ", ")
    IN  IF Len(node.imports) > 0 /\ node.imports[1].name = "*"
        THEN indent(indentLevel) \o "import " \o imports \o ";"
        ELSE indent(indentLevel) \o "import { " \o imports \o " } from '"
             \o node.module \o "';"

\* lines 1320-1324
generateLambda(node) ==
    "(" \o join(node.params, ", ") \o ") => " \o generateExpression(node.body)

\* lines 1003-1056
generateStatement(node, indentLevel) ==
    LET t == node.type
        yieldVal == generateExpression(node.value)
        expr == generateExpression(node.expression)
    IN
    CASE t = "FunctionDeclaration" -> generateFunction(node, indentLevel)
      [] t = "ClassDeclaration" -> generateClass(node, indentLevel)
      [] t = "ForInLoop" -> generateForIn(node, indentLevel)
      [] t = "IfStatement" -> generateIf(node, indentLevel)
      [] t = "WhileLoop" -> generateWhile(node, indentLevel)
      [] t = "TryStatement" -> generateTry(node, indentLevel)
      [] t = "WithStatement" -> generateWith(node, indentLevel)
      [] t = "ReturnStatement" ->
           Generated(generateReturn(node, indentLevel), indentLevel)
      [] t = "RaiseStatement" ->
           Generated(generateRaise(node, indentLevel), indentLevel)
      [] t = "AssertStatement" ->
           Generated(generateAssert(node, indentLevel), indentLevel)
      [] t = "PrintStatement" ->
           Generated(generatePrint(node, indentLevel), indentLevel)
      [] t = "ImportStatement" ->
           Generated(generateImport(node, indentLevel), indentLevel)
      [] t = "FromImportStatement" ->
           Generated(generateFromImport(node, indentLevel), indentLevel)
      [] t = "BreakStatement" ->
           Generated(indent(indentLevel) \o "break;", indentLevel)
      [] t = "ContinueStatement" ->
           Generated(indent(indentLevel) \o "continue;", indentLevel)
      [] t = "DeleteStatement" ->
           Generated(indent(indentLevel) \o "delete "
                     \o generateExpression(node.target) \o ";", indentLevel)
      [] t = "LambdaExpression" ->
           Generated(indent(indentLevel) \o generateLambda(node) \o ";", indentLevel)
      [] t = "AwaitExpression" ->
           Generated(indent(indentLevel) \o "await "
                     \o generateExpression(node.expression) \o ";", indentLevel)
      [] t = "YieldExpression" ->
           Generated(indent(indentLevel) \o "yield"
                     \o (IF yieldVal # "" THEN " " \o yieldVal ELSE "") \o ";",
                     indentLevel)
      [] t = "ExpressionStatement" ->
           Generated(IF expr # "" THEN indent(indentLevel) \o expr \o ";" ELSE "",
                     indentLevel)
      [] OTHER -> Generated("", indentLevel)

\* lines 994-1001: the codes that are not empty, joined by '\n'
RECURSIVE generateLines(_, _)
generateLines(body, indentLevel) ==
    IF Len(body) = 0 THEN <<>>
    ELSE LET code == generateStatement(body[1], indentLevel)
         IN  (IF code.text # "" THEN <<code.text>> ELSE <<>>)
             \o generateLines(Tail(body), code.indentLevel)

generateProgram(node) == join(generateLines(node.body, 0), "\n")

\* new CodeGenerator(ast).generate()
generate(ast) == generateProgram(ast)

(***************************************************************************)
(* IndentScript.transpile                                                  *)
(***************************************************************************)
Returned(text) == [kind |-> "return", text |-> text]

\* line 1523: error.line is undefined for an Error of the parser
Raised(message) ==
    [kind |-> "throw",
     text |-> "IndentScript Error at line unknown: " \o message]

\* the call never comes back
Diverged == [kind |-> "hang", text |-> ""]

\* lines 1517-1524: what transpile does with a parser that has ended
Outcome(p) ==
    IF p.st = "ok" THEN Returned(generate(p.ret))
    ELSE IF p.st = "throw" THEN Raised(p.msg)
    ELSE Diverged

\* lines 1510-1525 as one function of the source
transpile(code) == Outcome(parse(tokenize(code)))

(***************************************************************************)
(* The sources handed to transpile                                         *)
(***************************************************************************)
\* longest source made of the characters below alone
MaxJunk == 3

\* most statements in the body of a generated block
MaxBody == 2

\* most transpile calls a client makes on one IndentScript object
MaxCalls == 3

\* the concatenation of a sequence of strings
concat(items) == join(items, "")

\* every sequence of 1..n elements of S
RECURSIVE SeqsUpTo(_, _)
SeqsUpTo(S, n) ==
    IF n = 0 THEN {}
    ELSE LET shorter == SeqsUpTo(S, n - 1)
         IN  {<<x>> : x \in S} \cup shorter
             \cup {Append(q, x) : q \in shorter, x \in S}

\* every string of 1..MaxJunk of these characters: the tokens parseExpression
\* refuses at depth 0, line breaks, indentation and comments
JunkSources == {concat(q) : q \in SeqsUpTo({"a", ":", ")", " ", "\n", "#"}, MaxJunk)}

\* headers of functions
DefHeaders == {"def greet(name):", "def f(a, b = 1):"}

\* headers of blocks
Headers == DefHeaders \cup {"class A:", "if a:"}

\* statements of block bodies
BodyLines ==
    {"print(f\"Hi {name}\")", "x = f\"{a}-{b}!\"", "return a", "# note"}

\* the widths blocks are indented by
Indents == {"  ", "    ", "\t"}

\* what follows a block at column 0
Trailers == {"", "\n", "main()\n", "\n#end\nmain()"}

\* a header, its body indented by ind, and what follows at column 0
block(h, body, ind, t) ==
    h \o "\n" \o concat([k \in 1..Len(body) |-> ind \o body[k] \o "\n"]) \o t

BlockSources ==
    {block(h, body, ind, t) :
        h \in Headers, body \in SeqsUpTo(BodyLines, MaxBody),
        ind \in Indents, t \in Trailers}

\* classes with methods, for the parameters of method headers
MethodParams ==
    {"self", "self, x", "self, x, y", "self, x = 1", "self, *rest", "x, self", ""}

ClassSources ==
    {"class A:\n  def m(" \o ps \o "):\n    return 1\n  def n(" \o qs
     \o "):\n    pass\n" : ps \in MethodParams, qs \in {"self, k", "k"}}

\* the documented examples and the cases the single rules need
CaseSources ==
    {"print(\"hi\")",
     "def greet(name):\n    print(f\"Hi {name}\")\n",
     "def main():\n    name = \"World\"\n    print(f\"Hello, {name}!\")\n\nmain()\n",
     "for i in range(3):\n    print(i)\n",
     "class A:\n    def __init__(self, x):\n        self.x = x\n",
     "y = 7 // 2",
     "try:\n    f()\nexcept Exception as e:\n    print(e)\n",
     "a = 1\n    b = 2\n  c = 3\nd = 4\n",
     "if a:\n  if b:\n    c\n  d\ne\n",
     "x = \"\"\"a\n# b\nc\"\"\"\ny\n",
     "x = 'a\n  # b' + 1\n",
     "x = 1 # c\n  # d\n\t\r\ny = x.append(2) \\ ~ 3.5e+2\n",
     "def f():\n  :",
     "class A:\n  )",
     "print(:)",
     "print a, b",
     "lambda 1: 2",
     "lambda x: x",
     "def",
     "if a:\n  b\n# c\n\n  d\n \t\ne\n",
     "import a, b as c\nfrom m import *\n",
     "f(a,\n  b)\n" \o Backtick \o "t" \o Backtick \o "\n"}

\* the idioms of the documentation: range, class methods, floor division,
\* try/except, with, parameter forms, return types and lambda
IdiomSources ==
    {"x = range(n)",
     "x = range(1, n)",
     "x = range(0, n, 2)",
     "x = range(f(a, b))",
     "class A:\n    def __init__(self, x):\n        self.x = x\n    def get(self):\n        return self.x\n",
     "class A:\n    def __init__(self, x):\n        self.x = x\n    def size(self):\n        return self.x\n",
     "t = a // b",
     "print(7 // 2)",
     "with open(p) as f:\n    print(f)\n",
     "with lock:\n    print(1)\n",
     "def f(a, b = 1, *c, **d):\n  return a\n",
     "def f(a, b = g(1, 2), *c):\n  return a\n",
     "def f(**d):\n  return d\n",
     "def f(a) -> T:\n  return a\n",
     "def f(a):\n  return a\n",
     "square = lambda x: x * x",
     "v = lambda a, b: a\ny = 1\n",
     "f(lambda x: x * x)",
     "def f(:\n",
     "x = 1\nclass 2:\n"}

\* string literals: empty, triple-quoted, over several lines, unclosed
StringSources ==
    {"x = \"\" + y",
     "''\n",
     "x = \"\"\"a\"\"\"",
     "x = \"\"\"a\nb\"\"\" + 1",
     "x = 'a\\'b' + f\"c{d}\"",
     "  y = 'a\n b'\n  z",
     "x = \"abc",
     "x = '''abc\n",
     "a \\ f'b{c}",
     "x = \"(\"\ny",
     "x = \"(\" )\ny",
     "x = (a,\n b), c\n"}

\* the names that follow a dot: the listed names of Python, keys and values,
\* names every object of JavaScript has, and other names
MemberNames ==
    {"append", "extend", "upper", "lower", "strip", "lstrip", "rstrip",
     "startswith", "endswith", "find", "index", "items", "keys", "values",
     "constructor", "toString", "size"}

MemberSources == {"x." \o name : name \in MemberNames}

\* statements with blocks inside blocks, branches of if, clauses of try, a
\* block without a statement, and a lambda statement
NestedSources ==
    {"def f():\n  if a:\n    b\n  elif c:\n    d\n  else:\n    e\n",
     "def f():\n  if a:\n    if b:\n      c\n    else:\n      d\n  elif e:\n    g\n  x\n",
     "def f():\n  try:\n    g\n  except E as e:\n    h\n  finally:\n    i\n",
     "def f():\n  for i in r:\n    while a:\n      d\n",
     "def f():\n while a:\n  with b as c:\n   d\n e\n",
     "class A:\n  def m(self):\n    if a:\n      b\n    elif c:\n      d\n",
     "def f():\n",
     "lambda x: x"}

Sources ==
    JunkSources \cup BlockSources \cup ClassSources \cup CaseSources
    \cup IdiomSources \cup StringSources \cup MemberSources
    \cup NestedSources

\* most lines of a source made of the lines below
MaxLines == 3

\* sources of statements, comments and blank lines at column 0 and indented,
\* and of the quotes that open and close a string literal over several lines
LineSources ==
    {concat([k \in 1..Len(q) |-> q[k] \o "\n"]) :
        q \in SeqsUpTo({"a", "# c", "", "  b", "\t# d", "\"\"\""}, MaxLines)}
    \cup JunkSources \cup CaseSources

\* the sources of a client that calls transpile several times
CallSources ==
    {"x = 1 # c\n  y = \"s\" + " \o Backtick \o "t" \o Backtick \o " \\ (2)\n",
     "def f(a):\n  return a\n",
     "def",
     ":"}

(***************************************************************************)
(* The state machine: a client with an IndentScript object calls           *)
(* transpile on one source after the other; a call runs tokenize one       *)
(* iteration at a time, then parse one statement at a time, then generate. *)
(***************************************************************************)
NoLexer == [tokens |-> <<>>, done |-> TRUE]

NoParser ==
    [tokens |-> <<>>, pos |-> 0, st |-> "ok", msg |-> "", ret |-> Null,
     frames |-> <<>>]

NoOutput == [kind |-> "none", text |-> ""]

\* a path that names no file, and a file with its text
NoFile == [exists |-> FALSE, text |-> ""]

File(text) == [exists |-> TRUE, text |-> text]

\* the paths of the working directory
Paths == {"a.isc", "a.js", "out.js"}

NoFiles == [path \in Paths |-> NoFile]

\* outputPath = "" stands for the default outputPath = null
NoJob == [inputPath |-> "", outputPath |-> ""]

\* most transpileFile calls a client makes
MaxJobs == 2

\* the transpileFile calls of a client: any path, with an output path or
\* without
Jobs == {[inputPath |-> i, outputPath |-> o] : i \in Paths, o \in {"", "out.js"}}

\* a directory with a source file, with or without an older output file
FileSystems ==
    {[NoFiles EXCEPT !["a.isc"] = File(code), !["a.js"] = older] :
        code \in CallSources, older \in {NoFile, File("old")}}

\* s.lastIndexOf(ch), 1-based, 0 if there is none
RECURSIVE lastIndexOf(_, _, _)
lastIndexOf(s, ch, i) ==
    IF i = 0 THEN 0
    ELSE IF SubSeq(s, i, i) = ch THEN i
    ELSE lastIndexOf(s, ch, i - 1)

\* lines 1549-1550: path.join(parsedPath.dir, parsedPath.name + '.js') for a
\* path without a directory; name is the path up to its last dot, the whole
\* path when it has none or only starts with one
defaultOutput(inputPath) ==
    LET dot == lastIndexOf(inputPath, ".", Len(inputPath))
    IN  (IF dot > 1 THEN SubSeq(inputPath, 1, dot - 1) ELSE inputPath) \o ".js"

\* the path transpileFile writes to and returns
outputOf(call) ==
    IF call.outputPath # "" THEN call.outputPath
    ELSE defaultOutput(call.inputPath)

\* lines 1543-1553 with the write in a finally clause: what the call ended
\* with is written, an error message included
writeAlways(fs, call, out) == [fs EXCEPT ![outputOf(call)] = File(out.text)]

\* lines 1543-1553: an Error of transpile leaves transpileFile at line 1543;
\* after its return writeFileSync puts the whole text into the output file
writeOutput(fs, call, out) ==
    IF out.kind = "return" THEN [fs EXCEPT ![outputOf(call)] = File(out.text)]
    ELSE fs

\* a new IndentScript object and the sources its client will hand to it
Start(calls) ==
    /\ inputs \in calls
    /\ phase = "idle"
    /\ lexer = NoLexer
    /\ parser = NoParser
    /\ output = NoOutput
    /\ history = <<>>
    /\ files = NoFiles
    /\ jobs = <<>>
    /\ job = NoJob

Init == Start({<<s>> : s \in Sources} \cup SeqsUpTo(CallSources, MaxCalls))

InitLines == Start({<<s>> : s \in LineSources})

\* a new IndentScript object, a directory and the transpileFile calls its
\* client will make
InitFile ==
    /\ inputs = <<>>
    /\ phase = "idle"
    /\ lexer = NoLexer
    /\ parser = NoParser
    /\ output = NoOutput
    /\ history = <<>>
    /\ files \in FileSystems
    /\ jobs \in SeqsUpTo(Jobs, MaxJobs)
    /\ job = NoJob

\* transpile(code) is called: line 1512
Call ==
    /\ phase = "idle"
    /\ inputs # <<>>
    /\ lexer' = Lexer(Head(inputs))
    /\ inputs' = Tail(inputs)
    /\ phase' = "tokenize"
    /\ UNCHANGED <<parser, output, history, fileVars>>

\* one iteration of the main loop of tokenize that takes the given branch
Iteration(branch, step(_)) ==
    /\ phase = "tokenize"
    /\ tokenizeBranch(lexer) = branch
    /\ lexer' = step(lexer)
    /\ UNCHANGED <<inputs, phase, parser, output, history, fileVars>>

LexIndent == Iteration("indent", tokenizeIndent)

LexNewline == Iteration("newline", tokenizeNewline)

LexComment == Iteration("comment", tokenizeComment)

LexString == Iteration("string", tokenizeString)

LexNumber == Iteration("number", tokenizeNumber)

LexWord == Iteration("word", tokenizeWord)

LexOperator == Iteration("operator", tokenizeOperator)

LexMark == Iteration("mark", tokenizeMark)

LexUnknown == Iteration("unknown", tokenizeUnknown)

\* tokenize returns; lines 1515-1516 start the parser on its tokens
LexEnd ==
    /\ phase = "tokenize"
    /\ tokenizeBranch(lexer) = "end"
    /\ lexer' = tokenizeEnd(lexer)
    /\ parser' = parseStart(lexer'.tokens)
    /\ phase' = "parse"
    /\ UNCHANGED <<inputs, output, history, fileVars>>

\* one iteration of the loop of parse
ParseStatement ==
    /\ phase = "parse"
    /\ Parser_peek(parser).type # "EOF"
    /\ parser' = parseIteration(parser)
    /\ phase' = CASE parser'.st = "ok" -> "parse"
                  [] parser'.st = "throw" -> "catch"
                  [] OTHER -> "hang"
    /\ UNCHANGED <<inputs, lexer, output, history, fileVars>>

\* parse returns the Program, generate turns it into text, transpile returns
Generate ==
    /\ phase = "parse"
    /\ Parser_peek(parser).type = "EOF"
    /\ parser' = parseIteration(parser)
    /\ output' = Outcome(parser')
    /\ history' = Append(history, [code |-> lexer.code, output |-> output'])
    /\ phase' = "idle"
    /\ UNCHANGED <<inputs, lexer, fileVars>>

\* lines 1522-1524: the Error of the parser is caught and wrapped
Catch ==
    /\ phase = "catch"
    /\ output' = Outcome(parser)
    /\ history' = Append(history, [code |-> lexer.code, output |-> output'])
    /\ phase' = "idle"
    /\ UNCHANGED <<inputs, lexer, parser, fileVars>>

Next ==
    \/ Call
    \/ LexIndent \/ LexNewline \/ LexComment \/ LexString \/ LexNumber
    \/ LexWord \/ LexOperator \/ LexMark \/ LexUnknown \/ LexEnd
    \/ ParseStatement
    \/ Generate
    \/ Catch

Spec == Init /\ [][Next]_vars

\* the same program on the sources that vary in their comment and blank lines
SpecLines == InitLines /\ [][Next]_vars

\* transpileFile(inputPath, outputPath) is called on a path that names no
\* file: lines 1538-1540
FileNotFound ==
    /\ phase = "idle"
    /\ job = NoJob
    /\ jobs # <<>>
    /\ ~files[Head(jobs).inputPath].exists
    /\ output' = [kind |-> "throw",
                  text |-> "File not found: " \o Head(jobs).inputPath]
    /\ jobs' = Tail(jobs)
    /\ UNCHANGED <<inputs, phase, lexer, parser, history, files, job>>

\* transpileFile(inputPath, outputPath) is called on a file: lines 1542-1543
\* read it and call transpile on its text
CallFile ==
    /\ phase = "idle"
    /\ job = NoJob
    /\ jobs # <<>>
    /\ files[Head(jobs).inputPath].exists
    /\ job' = Head(jobs)
    /\ jobs' = Tail(jobs)
    /\ lexer' = Lexer(files[Head(jobs).inputPath].text)
    /\ phase' = "tokenize"
    /\ UNCHANGED <<inputs, parser, output, history, files>>

\* transpile has come back to transpileFile: lines 1543-1553
FileEnd ==
    /\ phase = "idle"
    /\ job # NoJob
    /\ files' = writeOutput(files, job, output)
    /\ job' = NoJob
    /\ UNCHANGED <<inputs, phase, lexer, parser, output, history, jobs>>

NextFile ==
    \/ FileNotFound
    \/ CallFile
    \/ LexIndent \/ LexNewline \/ LexComment \/ LexString \/ LexNumber
    \/ LexWord \/ LexOperator \/ LexMark \/ LexUnknown \/ LexEnd
    \/ ParseStatement
    \/ Generate
    \/ Catch
    \/ FileEnd

\* a client that calls transpileFile on the files of a directory
SpecFile == InitFile /\ [][NextFile]_vars

(***************************************************************************)
(* Properties.  A call has ended when transpile has returned or thrown     *)
(* (phase is "idle" again and history holds its result) or when it has     *)
(* reached an iteration that repeats for ever; lexer.code is its source.   *)
(***************************************************************************)
Last(s) == s[Len(s)]

Ended == phase = "hang" \/ (phase = "idle" /\ history # <<>>)

Result == IF phase = "hang" THEN Diverged ELSE output

\* the same kind of end and, when text is returned, the same text; the
\* message of an error carries line numbers
Similar(a, b) == a.kind = b.kind /\ (a.kind = "return" => a.text = b.text)

RECURSIVE Contains(_, _)
Contains(s, part) ==
    IF Len(s) < Len(part) THEN FALSE
    ELSE SubSeq(s, 1, Len(part)) = part \/ Contains(Tail(s), part)

EndsWith(s, part) ==
    Len(s) >= Len(part) /\ SubSeq(s, Len(s) - Len(part) + 1, Len(s)) = part

\* C1: every call of transpile terminates, by returning or by throwing: no
\* loop of the parser reaches an iteration that consumes no token and does
\* not leave the loop.
C1_TranspileTerminates == phase # "hang"

\* a def, its indented body of statements, then a call at column 0
DefThenStatement ==
    {block(h, body, ind, "main()\n") :
        h \in DefHeaders, body \in SeqsUpTo(BodyLines \ {"# note"}, MaxBody),
        ind \in Indents}
    \cup {"def main():\n    name = \"World\"\n    print(f\"Hello, {name}!\")\n\nmain()\n"}

\* C2: a statement at column 0 after a def with an indented body is an
\* element of Program.body of its own, emitted after the closing brace of
\* the function.
C2_StatementAfterDef ==
    (phase = "idle" /\ history # <<>> /\ lexer.code \in DefThenStatement
     /\ output.kind = "return")
    => /\ Len(parser.ret.body) = 2
       /\ parser.ret.body[1].type = "FunctionDeclaration"
       /\ parser.ret.body[2].type = "ExpressionStatement"
       /\ EndsWith(output.text, "\n}\nmain();")

\* INDENT tokens less DEDENT tokens among the first n tokens, or -1 when
\* some prefix of them holds more DEDENT than INDENT tokens
RECURSIVE Open(_, _)
Open(tokens, n) ==
    IF n = 0 THEN 0
    ELSE LET before == Open(tokens, n - 1)
         IN  IF before < 0 THEN -1
             ELSE IF tokens[n].type = "INDENT" THEN before + 1
             ELSE IF tokens[n].type = "DEDENT" THEN before - 1
             ELSE before

\* C3: in every prefix of the token stream the DEDENT tokens are no more
\* than the INDENT tokens, and the stream tokenize returns holds equally
\* many of both.
C3_IndentsBalance ==
    LET open == Open(lexer.tokens, Len(lexer.tokens))
    IN  open >= 0 /\ (lexer.done => open = 0)

\* tokenize has returned a stream where a block was closed by a line of
\* lesser indentation and another by the end of the input
C3_Witness ==
    /\ lexer.done
    /\ \E k \in 1..Len(lexer.tokens) :
           lexer.tokens[k].type = "DEDENT" /\ lexer.tokens[k].value # "0"
    /\ \E k \in 1..Len(lexer.tokens) :
           lexer.tokens[k].type = "DEDENT" /\ lexer.tokens[k].value = "0"

Newlines(tokens) == Cardinality({k \in 1..Len(tokens) : tokens[k].type = "NEWLINE"})

\* the next iteration of tokenize meets a line break, and a token other than
\* NEWLINE was the last one pushed
NewlineDue ==
    /\ tokenizeBranch(lexer) = "newline"
    /\ lexer.tokens # <<>>
    /\ Last(lexer.tokens).type # "NEWLINE"

\* C4: no NEWLINE token is the first token or follows a NEWLINE token, and
\* an iteration of tokenize pushes a NEWLINE token exactly when it meets a
\* line break while a previous token exists and is not NEWLINE.
C4_SingleNewlines ==
    /\ [](\A k \in 1..Len(lexer.tokens) :
              lexer.tokens[k].type = "NEWLINE"
              => k > 1 /\ lexer.tokens[k - 1].type # "NEWLINE")
    /\ [][phase = "tokenize" =>
              IF NewlineDue
              THEN /\ Len(lexer'.tokens) = Len(lexer.tokens) + 1
                   /\ Last(lexer'.tokens).type = "NEWLINE"
              ELSE Newlines(lexer'.tokens) = Newlines(lexer.tokens)]_vars

\* a line break is met right after a NEWLINE token: a blank line
C4_Witness ==
    /\ phase = "tokenize"
    /\ tokenizeBranch(lexer) = "newline"
    /\ lexer.tokens # <<>>
    /\ Last(lexer.tokens).type = "NEWLINE"

\* C5: the stream tokenize returns holds one EOF token, its last, so the
\* DEDENT tokens of the end of the input come before it; no EOF token is
\* pushed before tokenize returns.
C5_EofLast ==
    \A k \in 1..Len(lexer.tokens) :
        lexer.tokens[k].type = "EOF" <=> (lexer.done /\ k = Len(lexer.tokens))

\* tokenize has returned a stream that ends DEDENT, EOF
C5_Witness ==
    /\ lexer.done
    /\ Len(lexer.tokens) >= 2
    /\ lexer.tokens[Len(lexer.tokens) - 1].type = "DEDENT"
    /\ Last(lexer.tokens).type = "EOF"

\* C6: two calls of transpile with the same source end the same way, with
\* the same text or the same error, whatever was called in between.
C6_SameSourceSameResult ==
    \A i, j \in 1..Len(history) :
        history[i].code = history[j].code => history[i].output = history[j].output

\* the same source was transpiled before and after another one
C6_Witness ==
    /\ Len(history) = 3
    /\ history[1].code = history[3].code
    /\ history[2].code # history[1].code
    /\ history[1].output.kind = "return"
    /\ history[1].output.text # ""
    /\ history[2].output.text # history[1].output.text

\* the offset of the first character after the line that holds offset p
RECURSIVE lineEnd(_, _)
lineEnd(code, p) ==
    IF p >= Len(code) THEN Len(code)
    ELSE IF CharAt(code, p + 1) = "\n" THEN p + 1
    ELSE lineEnd(code, p + 1)

\* the first character at or after offset p that is not whitespace
RECURSIVE firstMark(_, _)
firstMark(code, p) ==
    IF isWhitespace(CharAt(code, p + 1)) THEN firstMark(code, p + 1)
    ELSE CharAt(code, p + 1)

\* code without the lines that start at the offsets in starts
RECURSIVE without(_, _, _)
without(code, starts, p) ==
    IF p >= Len(code) THEN ""
    ELSE IF p \in starts THEN without(code, starts, lineEnd(code, p))
    ELSE CharAt(code, p + 1) \o without(code, starts, p + 1)

\* code with text put in at offset p
insert(code, p, text) == SubSeq(code, 1, p) \o text \o SubSeq(code, p + 1, Len(code))

\* the offsets where a line of the text starts
textLineStarts(code) ==
    {0} \cup {p \in 1..(Len(code) - 1) : CharAt(code, p) = "\n"}

\* the offsets where the main loop of tokenize starts a line: the lines that
\* start inside a string literal are not among them
RECURSIVE lineStarts(_)
lineStarts(lx) ==
    IF lx.done THEN {}
    ELSE (IF lx.atLineStart /\ lx.col = 1 THEN {lx.pos} ELSE {})
         \cup lineStarts(tokenizeStep(lx))

\* code without each line whose first character other than whitespace is '#'
StripText(code) ==
    without(code, {p \in textLineStarts(code) : firstMark(code, p) = "#"}, 0)

\* the same, for the lines that do not start inside a string literal
StripComments(code) ==
    without(code, {p \in lineStarts(Lexer(code)) : firstMark(code, p) = "#"}, 0)

\* C7 as stated: removing each line whose first character other than
\* whitespace is '#' leaves the result of transpile unchanged, also when
\* such a line lies inside a string literal.
C7_StripAnyHashLine == Ended => Similar(transpile(StripText(lexer.code)), Result)

\* C7: removing each line whose first character other than whitespace is
\* '#' and that does not start inside a string literal leaves the result of
\* transpile unchanged: the same text, or an error, or no end, as before.
C7_StripCommentLines == Ended => Similar(transpile(StripComments(lexer.code)), Result)

\* text was returned for a source that holds a comment line
C7_Witness ==
    /\ Ended
    /\ Result.kind = "return"
    /\ Result.text # ""
    /\ StripComments(lexer.code) # lexer.code

\* blank lines: empty, or made of spaces, tabs and carriage returns
BlankLines == {"\n", " \n", "\t\r\n"}

\* the offsets where tokenize starts a line at column 0, or ends on one
topLineStarts(code) ==
    {p \in lineStarts(Lexer(code)) : ~isWhitespace(CharAt(code, p + 1))}

\* the offsets where tokenize starts a blank line that a line at column 0,
\* or the end of the source, follows
blankLineStarts(code) ==
    {p \in lineStarts(Lexer(code)) :
        /\ firstMark(code, p) = "\n"
        /\ ~isWhitespace(CharAt(code, lineEnd(code, p) + 1))}

\* C8: a blank line put in before a statement at column 0 or after the last
\* line, or a blank line before such a place taken out, leaves the result
\* of transpile unchanged.
C8_BlankLines ==
    Ended =>
        /\ \A p \in topLineStarts(lexer.code) : \A b \in BlankLines :
               Similar(transpile(insert(lexer.code, p, b)), Result)
        /\ \A p \in blankLineStarts(lexer.code) :
               Similar(transpile(without(lexer.code, {p}, 0)), Result)

\* text was returned for a source with a blank line between two statements
C8_Witness ==
    /\ Ended
    /\ Result.kind = "return"
    /\ Result.text # ""
    /\ \E p \in blankLineStarts(lexer.code) :
           p > 0 /\ lineEnd(lexer.code, p) < Len(lexer.code)

\* the first parameter is the bare name self
selfFirst(method) ==
    /\ method.params # <<>>
    /\ method.params[1] = [name |-> "self", defaultValue |-> Null, spread |-> ""]

\* the header of a method of a class at the top level, with the parameters
\* after the first one in their order
headerWithoutSelf(method) ==
    "\n  " \o (IF method.name = "__init__" THEN "constructor" ELSE method.name)
    \o "(" \o join(generateParams(Tail(method.params)), ", ") \o ") {\n"

\* the methods of the classes of the Program that parse has returned
methodsOf(program) ==
    UNION {{program.body[k].methods[m] : m \in 1..Len(program.body[k].methods)} :
              k \in {n \in 1..Len(program.body) :
                        program.body[n].type = "ClassDeclaration"}}

\* C9: the header emitted for a method whose first parameter is the bare
\* name self lists the parameters after it, in their order, and not self.
C9_SelfDropped ==
    (phase = "idle" /\ history # <<>> /\ output.kind = "return")
    => \A method \in methodsOf(parser.ret) :
           selfFirst(method)
           => /\ Contains(output.text, headerWithoutSelf(method))
              /\ ~Contains(headerWithoutSelf(method), "self")

\* a method with self and two more parameters was emitted
C9_Witness ==
    /\ phase = "idle" /\ history # <<>> /\ output.kind = "return"
    /\ \E method \in methodsOf(parser.ret) :
           selfFirst(method) /\ Len(method.params) = 3
    /\ Contains(output.text, "\n  m(x, y) {\n")

\* s with every '{' turned into '${'
RECURSIVE dollar(_)
dollar(s) ==
    IF s = "" THEN ""
    ELSE (IF Head(s) = "{" THEN "${" ELSE Head(s)) \o dollar(Tail(s))

\* an f-string of the source as a template literal
template(s) == Backtick \o dollar(s) \o Backtick

\* the statement a body line is to become
expectedLine(line) ==
    CASE line = "print(f\"Hi {name}\")" -> "console.log(" \o template("Hi {name}") \o ");"
      [] line = "x = f\"{a}-{b}!\"" -> "x=" \o template("{a}-{b}!") \o ";"
      [] line = "return a" -> "return a;"

\* function name(params) {, the statements of the body in their order, and }
expectedFunction(h, body) ==
    "function " \o SubSeq(h, 5, Len(h) - 1) \o " {\n"
    \o concat([k \in 1..Len(body) |->
                  IF body[k] = "# note" THEN ""
                  ELSE "  " \o expectedLine(body[k]) \o "\n"])
    \o "}"

\* the functions whose indented body runs to the end of the source
DefToEnd ==
    {[code |-> block(h, body, ind, ""), text |-> expectedFunction(h, body)] :
        h \in DefHeaders, body \in SeqsUpTo(BodyLines, MaxBody), ind \in Indents}

\* C10: for a def whose indented body runs to the end of the source,
\* transpile returns function name(params) {, the statements of the body in
\* source order, and the closing brace; an f-string of the body is emitted
\* between backticks with every {X} as ${X}.
C10_FunctionToEnd ==
    (phase = "idle" /\ history # <<>>)
    => \A case \in DefToEnd :
           lexer.code = case.code => output = Returned(case.text)

\* the greet function of the documentation was transpiled
C10_Witness ==
    /\ phase = "idle" /\ history # <<>>
    /\ lexer.code = "def greet(name):\n    print(f\"Hi {name}\")\n"
    /\ output = Returned("function greet(name) {\n  console.log("
                         \o Backtick \o "Hi ${name}" \o Backtick \o ");\n}")

\* s without its spaces, tabs and line breaks
RECURSIVE squeeze(_)
squeeze(s) ==
    IF s = "" THEN ""
    ELSE (IF Head(s) \in {" ", "\t", "\r", "\n"} THEN "" ELSE Head(s))
         \o squeeze(Tail(s))

\* the call of the source has returned text that holds part, whitespace aside
Emits(code, part) ==
    (Ended /\ lexer.code = code)
    => Result.kind = "return" /\ Contains(squeeze(Result.text), squeeze(part))

\* calls of range and the text each is to become: the form follows the
\* number of arguments at depth 0
RangeCases ==
    {[code |-> "x = range(n)",
      text |-> "x = Array.from({length: n}, (_, i) => i);"],
     [code |-> "x = range(1, n)",
      text |-> "x = Array.from({length: n - 1}, (_, i) => i + 1);"],
     [code |-> "x = range(0, n, 2)",
      text |-> "x = Array.from({length: Math.ceil((n - 0) / 2)}, (_, i) => 0 + i * 2);"],
     [code |-> "x = range(f(a, b))",
      text |-> "x = Array.from({length: f(a, b)}, (_, i) => i);"],
     [code |-> "for i in range(3):\n    print(i)\n",
      text |-> "for (const i of Array.from({length: 3}, (_, i) => i)) { console.log(i); }"]}

\* C11: range(e) with one argument e, which may hold commas inside nested
\* brackets, is emitted as Array.from({length: e}, (_, i) => i); the one-,
\* two- and three-argument forms follow the number of arguments at depth 0.
C11_RangeByTopLevelArguments ==
    \A case \in RangeCases :
        Ended /\ lexer.code = case.code
        => Result.kind = "return"
           /\ squeeze(Result.text) = squeeze(case.text)

\* the class of the documentation with its constructor and the method get
ClassWithGet ==
    "class A:\n    def __init__(self, x):\n        self.x = x\n    def get(self):\n        return self.x\n"

\* C12: the class with __init__(self, x) and get(self) is returned as class
\* A with constructor(x) holding this.x = x and get() holding return this.x.
C12_ClassWithGet ==
    \A part \in {"class A {", "constructor(x) {", "this.x = x;", "get() {",
                 "return this.x;"} :
        Emits(ClassWithGet, part)

\* C13: the assignment t = a // b is emitted with Math.floor(a / b) in it.
C13_FloorDivision ==
    /\ Emits("y = 7 // 2", "Math.floor(7 / 2)")
    /\ Emits("t = a // b", "Math.floor(a / b)")

\* the try statement of the documentation
TryExcept == "try:\n    f()\nexcept Exception as e:\n    print(e)\n"

\* C14: try with an indented body and except Exception as e at column 0
\* with its own body is returned as try { f(); } catch (e) { console.log(e); }
\* and its handler has errorName e and the statements under except as body.
C14_TryExcept ==
    /\ Emits(TryExcept, "try { f(); } catch (e) { console.log(e); }")
    /\ (Ended /\ lexer.code = TryExcept)
       => /\ parser.ret.body[1].type = "TryStatement"
          /\ Len(parser.ret.body[1].handlers) = 1
          /\ parser.ret.body[1].handlers[1].errorName = "e"
          /\ Len(parser.ret.body[1].handlers[1].body) = 1

\* the detail of the error for a token that did not meet an expectation
\* names what was expected, the kind and value seen, and line and column
Detail(message, token) ==
    /\ SubSeq(message, 1, 9) = "Expected "
    /\ EndsWith(message,
                " but got " \o token.type \o " '" \o token.value
                \o "' at line " \o ToString(token.line) \o ":"
                \o ToString(token.col))

\* C15: when the parser fails on a token, transpile raises IndentScript
\* Error at line N: detail, with N the line of that token and detail naming
\* the expected kind, the kind and value seen, and line and column.
C15_ErrorLine ==
    (phase = "idle" /\ history # <<>> /\ output.kind = "throw")
    => /\ Detail(parser.msg, Parser_peek(parser))
       /\ output.text = "IndentScript Error at line "
                        \o ToString(Parser_peek(parser).line) \o ": "
                        \o parser.msg

\* the values of a run of tokens
values(tokens) == [k \in 1..Len(tokens) |-> tokens[k].value]

\* the with statement of the documentation
WithAs == "with open(p) as f:\n    print(f)\n"

\* C17: with expr as name: and a block is parsed to a WithStatement whose
\* context holds the tokens of expr only and whose alias is name, and is
\* emitted as a braced block that starts with const name = expr; the alias
\* ctx is used only for a source without an as clause.
C17_WithAlias ==
    /\ Emits(WithAs, "{ const f = open(p); console.log(f); }")
    /\ (Ended /\ lexer.code = WithAs)
       => /\ parser.ret.body[1].type = "WithStatement"
          /\ parser.ret.body[1].alias = "f"
          /\ values(parser.ret.body[1].context.tokens) = <<"open", "(", "p", ")">>
    /\ Emits("with lock:\n    print(1)\n", "{ const ctx = lock; console.log(1); }")

\* a def with each of the four forms of a parameter
FourForms == "def f(a, b = 1, *c, **d):\n  return a\n"

\* C18: a parameter list takes name, name = expr, *name and **name; a
\* default is emitted as name = expr and both spread forms as ...name.
C18_ParameterForms ==
    /\ Emits(FourForms, "function f(a, b = 1, ...c, ...d) {")
    /\ (Ended /\ lexer.code = FourForms)
       => /\ Len(parser.ret.body[1].params) = 4
          /\ parser.ret.body[1].params[3].spread = "array"
          /\ parser.ret.body[1].params[4].spread = "dict"

\* a def with a return type, and the same def without it
WithReturnType == "def f(a) -> T:\n  return a\n"

WithoutReturnType == "def f(a):\n  return a\n"

\* C19: def f(params) -> T: and a block is parsed to a FunctionDeclaration
\* with returnType T and the statements of the block as body, and the
\* function emitted is that of the source without -> T.
C19_ReturnType ==
    (Ended /\ lexer.code = WithReturnType)
    => /\ Result = transpile(WithoutReturnType)
       /\ parser.ret.body[1].type = "FunctionDeclaration"
       /\ parser.ret.body[1].returnType = "T"
       /\ Len(parser.ret.body[1].body) = 1

\* C20: the statement v = lambda p1, ..., pn: body outside any bracket is
\* emitted as v = (p1, ..., pn) => body, and the parser goes on with the
\* next statement.
C20_LambdaStatement ==
    /\ Emits("square = lambda x: x * x", "square = (x) => x * x")
    /\ Emits("v = lambda a, b: a\ny = 1\n", "v = (a, b) => a; y = 1;")

\* C16: transpileFile writes its output file only after lexing, parsing and
\* generation have all completed for the text of the input file, and the
\* file then holds the whole generated text; when the pipeline fails, no
\* file is created or changed.
C16_NoPartialOutput ==
    [][files' # files
       => /\ phase = "idle" /\ job # NoJob
          /\ transpile(files[job.inputPath].text).kind = "return"
          /\ files' = [files EXCEPT ![outputOf(job)] =
                          File(transpile(files[job.inputPath].text).text)]]_vars

\* every call has ended, the last one with the error of a source that the
\* parser refused, and the directory holds what it held before the calls
C16_Witness ==
    /\ phase = "idle" /\ job = NoJob /\ jobs = <<>> /\ history # <<>>
    /\ output.kind = "throw"
    /\ SubSeq(output.text, 1, 18) = "IndentScript Error"
    /\ files["a.js"] = File("old")
    /\ ~files["out.js"].exists

\* the kinds and values of a run of tokens
kinds(tokens) == [k \in 1..Len(tokens) |-> <<tokens[k].type, tokens[k].value>>]

\* sources with a literal that two or three quotes open, and their tokens
QuoteCases ==
    {[code |-> "x = \"\" + y",
      tokens |-> <<<<"IDENTIFIER", "x">>, <<"OPERATOR", "=">>, <<"STRING", "">>,
                   <<"OPERATOR", "+">>, <<"IDENTIFIER", "y">>, <<"EOF", "">>>>],
     [code |-> "''\n",
      tokens |-> <<<<"STRING", "">>, <<"NEWLINE", "\\n">>, <<"EOF", "">>>>],
     [code |-> "x = \"\"\"a\"\"\"",
      tokens |-> <<<<"IDENTIFIER", "x">>, <<"OPERATOR", "=">>, <<"STRING", "a">>,
                   <<"EOF", "">>>>]}

\* C21: a quote opens a triple-quoted string only when three quotes of its
\* kind stand there; the empty literal followed by another character is one
\* STRING token with the empty value, and lexing resumes after its second
\* quote.
C21_TripleQuoteTest ==
    \A case \in QuoteCases :
        lexer.done /\ lexer.tokens # <<>> /\ lexer.code = case.code
        => kinds(lexer.tokens) = case.tokens

\* the types of the tokens that stand for text of the source
SourceTypes ==
    {"IDENTIFIER", "KEYWORD", "NUMBER", "STRING", "FSTRING", "TEMPLATE",
     "OPERATOR", "BRACKET", "PUNCTUATION"}

\* C22: a token that stands for text of the source carries the line and
\* the column of its first character, the first one after the whitespace
\* before it, also when it is a string literal over several lines.
C22_TokenPositions ==
    [][(phase = "tokenize" /\ Len(lexer'.tokens) > Len(lexer.tokens)
        /\ Last(lexer'.tokens).type \in SourceTypes)
       => /\ Last(lexer'.tokens).line = skipWhitespace(lexer).line
          /\ Last(lexer'.tokens).col = skipWhitespace(lexer).col]_vars

\* the listed names of Python with the names of JavaScript they become
Renamed ==
    [append |-> "push", extend |-> "push", upper |-> "toUpperCase",
     lower |-> "toLowerCase", strip |-> "trim", lstrip |-> "trimStart",
     rstrip |-> "trimEnd", startswith |-> "startsWith", endswith |-> "endsWith",
     find |-> "indexOf", index |-> "indexOf", items |-> "entries"]

\* C23: an identifier after a dot is replaced exactly when it is one of the
\* twelve listed names, by the name listed for it; every other identifier
\* after a dot is emitted unchanged.
C23_MemberNames ==
    \A name \in MemberNames :
        Ended /\ lexer.code = "x." \o name
        => Result = Returned("x."
                             \o (IF name \in DOMAIN Renamed THEN Renamed[name]
                                 ELSE name)
                             \o ";")

\* the stack once every width greater than w is popped, the bottom aside
RECURSIVE popTo(_, _)
popTo(stack, w) ==
    IF Len(stack) > 1 /\ w < Top(stack) THEN popTo(Pop(stack), w) ELSE stack

\* the lexer is at the start of a line that holds a statement
AtStatementLine ==
    /\ phase = "tokenize"
    /\ lexer.atLineStart
    /\ lexer.pos < Len(lexer.code)
    /\ ~isBlankLine(readIndent(lexer, 0).lx)

\* C24: when a line that is neither blank nor a comment starts with a width
\* w smaller than the top of the indent stack, w = 0 included, the lexer
\* pops the stack until its top is no longer greater than w and emits one
\* DEDENT for each pop before the first token of the line.
C24_DedentBeforeLine ==
    [][(AtStatementLine /\ readIndent(lexer, 0).indent < Top(lexer.indentStack))
       => /\ lexer'.indentStack = popTo(lexer.indentStack, readIndent(lexer, 0).indent)
          /\ Len(lexer'.tokens) >= Len(lexer.tokens) + Len(lexer.indentStack)
                                   - Len(lexer'.indentStack)
          /\ \A k \in (Len(lexer.tokens) + 1) ..
                      (Len(lexer.tokens) + Len(lexer.indentStack)
                       - Len(lexer'.indentStack)) :
                 lexer'.tokens[k].type = "DEDENT"]_vars

\* sources that end inside a string literal, and the tokens of each
UnclosedCases ==
    {[code |-> "x = \"abc",
      tokens |-> <<<<"IDENTIFIER", "x">>, <<"OPERATOR", "=">>,
                   <<"STRING", "abc">>, <<"EOF", "">>>>],
     [code |-> "x = '''abc\n",
      tokens |-> <<<<"IDENTIFIER", "x">>, <<"OPERATOR", "=">>,
                   <<"STRING", "abc\n">>, <<"EOF", "">>>>],
     [code |-> "a \\ f'b{c}",
      tokens |-> <<<<"IDENTIFIER", "a">>, <<"FSTRING", "b{c}">>,
                   <<"EOF", "">>>>]}

\* C25: tokenize terminates on every source: each iteration of its main
\* loop consumes at least one character, so the characters left to read get
\* fewer until the loop is left; a character no rule knows is skipped; and a
\* string literal that is not closed runs to the end of the input and is a
\* string token followed by EOF.
C25_TokenizeTerminates ==
    /\ [](phase = "tokenize" /\ tokenizeBranch(lexer) # "end"
          => tokenizeStep(lexer).pos > lexer.pos)
    /\ [][(phase = "tokenize" /\ phase' = "tokenize")
          => lexer'.pos > lexer.pos]_vars
    /\ [][(phase = "tokenize" /\ tokenizeBranch(lexer) = "unknown")
          => lexer'.tokens = lexer.tokens]_vars
    /\ [](\A case \in UnclosedCases :
              lexer.done /\ lexer.tokens # <<>> /\ lexer.code = case.code
              => kinds(lexer.tokens) = case.tokens /\ lexer.pos = Len(lexer.code))

\* tokenize has returned the tokens of a source with a character that no
\* rule knows and a string literal that is not closed
C25_Witness ==
    /\ lexer.done /\ lexer.tokens # <<>>
    /\ lexer.code = "a \\ f'b{c}"
    /\ kinds(lexer.tokens) = <<<<"IDENTIFIER", "a">>, <<"FSTRING", "b{c}">>,
                               <<"EOF", "">>>>

\* how many tokens of a type there are
RECURSIVE count(_, _)
count(tokens, type) ==
    IF tokens = <<>> THEN 0
    ELSE count(Tail(tokens), type) + (IF Head(tokens).type = type THEN 1 ELSE 0)

\* the indent stack of line 169 with the tokens emitted so far
StackInvariant(stack, tokens) ==
    /\ Len(stack) >= 1
    /\ stack[1] = 0
    /\ \A i \in 1..(Len(stack) - 1) : stack[i] < stack[i + 1]
    /\ Len(stack) - 1 = count(tokens, "INDENT") - count(tokens, "DEDENT")

\* C26: before and after every iteration of the main loop of tokenize, and
\* when it returns, the indent stack is not empty, has 0 at the bottom,
\* increases strictly from bottom to top, and is one deeper than the number
\* of INDENT tokens less the number of DEDENT tokens emitted so far; no
\* prefix of the tokens has more DEDENT than INDENT tokens.
C26_IndentStack ==
    (phase = "tokenize" \/ lexer.tokens # <<>>)
    => /\ StackInvariant(lexer.indentStack, lexer.tokens)
       /\ \A n \in 0..Len(lexer.tokens) :
              count(SubSeq(lexer.tokens, 1, n), "INDENT")
                  >= count(SubSeq(lexer.tokens, 1, n), "DEDENT")

\* tokenize is inside a block again after a deeper one was closed by a line
\* of a smaller width
C26_Witness ==
    /\ phase = "tokenize"
    /\ ~lexer.done
    /\ Len(lexer.indentStack) = 2
    /\ count(lexer.tokens, "INDENT") = 2
    /\ count(lexer.tokens, "DEDENT") = 1

\* how deep in brackets the token after the first n tokens is
RECURSIVE bracketDepth(_, _)
bracketDepth(tokens, n) ==
    IF n = 0 THEN 0
    ELSE bracketDepth(tokens, n - 1)
         + (IF tokens[n].type = "BRACKET" /\ tokens[n].value \in openBrackets
            THEN 1 ELSE 0)
         - (IF tokens[n].type = "BRACKET" /\ tokens[n].value \in closeBrackets
            THEN 1 ELSE 0)

\* a token that ends an expression outside of brackets
endsExpression(token) ==
    \/ token.type \in {"NEWLINE", "INDENT", "DEDENT"}
    \/ token.type = "PUNCTUATION" /\ token.value \in {":", ","}

\* the Expression nodes of the expression statements at the top level of
\* the Program that parse has returned
expressionsOf(program) ==
    {program.body[k].expression :
        k \in {n \in 1..Len(program.body) :
                  program.body[n].type = "ExpressionStatement"}}

\* C27: in an Expression node returned by parseExpression a NEWLINE, INDENT,
\* DEDENT, `:` or `,` token has an open bracket of the node before it, no
\* prefix of the node closes more brackets than it opens, there is no EOF
\* token in it, and the parser is left at the token after the node's last.
C27_ExpressionTokens ==
    /\ (phase = "idle" /\ history # <<>> /\ output.kind = "return")
       => \A node \in expressionsOf(parser.ret) :
              \A k \in 1..Len(node.tokens) :
                  /\ node.tokens[k].type # "EOF"
                  /\ bracketDepth(node.tokens, k) >= 0
                  /\ endsExpression(node.tokens[k])
                     => bracketDepth(node.tokens, k - 1) >= 1
    /\ (phase = "parse" /\ parser.pos = 0)
       => parseExpression(parser).pos = Len(parseExpression(parser).ret.tokens)

\* Array.isArray of a value of the tree: a sequence is written <<...>>, a
\* record [...]
isSequence(value) == SubSeq(ToString(value), 1, 2) = "<<"

\* the value of a field of a node that holds nodes, as a sequence of nodes
nodesAt(node, field) ==
    IF field \notin DOMAIN node THEN <<>>
    ELSE IF isSequence(node[field]) THEN node[field]
    ELSE IF IsNull(node[field]) \/ node[field].type = "Expression" THEN <<>>
    ELSE <<node[field]>>

\* the nodes right below a node
childrenOf(node) ==
    nodesAt(node, "body") \o nodesAt(node, "methods") \o nodesAt(node, "consequent")
    \o nodesAt(node, "alternate") \o nodesAt(node, "tryBlock")
    \o nodesAt(node, "handlers") \o nodesAt(node, "finallyBlock")

\* a node and the nodes below it, the outer before the inner
RECURSIVE nodesOf(_), nodesIn(_)
nodesOf(node) == <<node>> \o nodesIn(childrenOf(node))

nodesIn(nodes) ==
    IF Len(nodes) = 0 THEN <<>> ELSE nodesOf(nodes[1]) \o nodesIn(Tail(nodes))

\* an else-branch or a finally block: the array of its statements
isBlock(value) == value.type = "Block" /\ isSequence(value.body)

\* the blocks of a node other than its body are sequences, and alternate is
\* absent, the statements of else or the IfStatement of elif
BlocksOf(node) ==
    /\ "consequent" \in DOMAIN node => isSequence(node.consequent)
    /\ "tryBlock" \in DOMAIN node => isSequence(node.tryBlock)
    /\ "finallyBlock" \in DOMAIN node
       => IsNull(node.finallyBlock) \/ isBlock(node.finallyBlock)
    /\ "alternate" \in DOMAIN node
       => \/ IsNull(node.alternate)
          \/ isBlock(node.alternate)
          \/ node.alternate.type = "IfStatement"

\* what is emitted after the closing brace of the consequent
ElseOf(node, text) ==
    "alternate" \in DOMAIN node /\ ~IsNull(node.alternate)
    => IF node.alternate.type = "IfStatement"
       THEN Contains(text, "} else if ("
                           \o generateExpression(node.alternate.condition)
                           \o ") {\n")
       ELSE Contains(text, "} else {\n")

\* a handler of try is the only node without a type
isLambda(node) == "type" \in DOMAIN node /\ node.type = "LambdaExpression"

\* transpile has returned the text of the Program of parser.ret
Transpiled == phase = "idle" /\ history # <<>> /\ output.kind = "return"

\* C28: in the tree that parse returns every body, consequent, tryBlock,
\* handler body and finallyBlock is a sequence of statements, and alternate
\* is absent, the sequence of else or the IfStatement of elif, emitted as
\* ` else {` and ` else if (...) {`.
C28_BlocksAreSequences ==
    Transpiled
    => \A k \in 1..Len(nodesOf(parser.ret)) :
           /\ "body" \in DOMAIN nodesOf(parser.ret)[k]
              => isSequence(nodesOf(parser.ret)[k].body)
           /\ BlocksOf(nodesOf(parser.ret)[k])
           /\ ElseOf(nodesOf(parser.ret)[k], output.text)

\* C28, amended: as C28, for every body but that of a LambdaExpression, which
\* is the Expression node of the lambda's result.
C28_BlocksOfStatements ==
    Transpiled
    => \A k \in 1..Len(nodesOf(parser.ret)) :
           /\ "body" \in DOMAIN nodesOf(parser.ret)[k]
              => IF isLambda(nodesOf(parser.ret)[k])
                 THEN nodesOf(parser.ret)[k].body.type = "Expression"
                 ELSE isSequence(nodesOf(parser.ret)[k].body)
           /\ BlocksOf(nodesOf(parser.ret)[k])
           /\ ElseOf(nodesOf(parser.ret)[k], output.text)

\* a function was emitted whose if has an elif and, after it, an else
C28_Witness ==
    /\ Transpiled
    /\ \E k \in 1..Len(nodesOf(parser.ret)) :
           /\ nodesOf(parser.ret)[k].type = "IfStatement"
           /\ nodesOf(parser.ret)[k].alternate.type = "IfStatement"
           /\ nodesOf(parser.ret)[k].alternate.alternate.type = "Block"
           /\ Len(nodesOf(parser.ret)[k].alternate.alternate.body) = 1

\* how many spaces a text starts with
RECURSIVE leadingSpaces(_)
leadingSpaces(text) ==
    IF Len(text) > 0 /\ SubSeq(text, 1, 1) = " "
    THEN 1 + leadingSpaces(SubSeq(text, 2, Len(text)))
    ELSE 0

\* the statements of a field of a node: of an array, or of the array of an
\* else-branch or a finally block
statementsAt(node, field) ==
    IF field \notin DOMAIN node THEN <<>>
    ELSE IF isSequence(node[field]) THEN node[field]
    ELSE IF node[field].type = "Block" THEN node[field].body
    ELSE <<>>

\* the statements of a sequence and of the blocks below them, each with the
\* number of blocks it is nested in; the IfStatement of an elif is no
\* statement of a block, its blocks are as deep as those of the if; the body
\* of a method is a block inside the block of its class
RECURSIVE placed(_, _), placedBelow(_, _), placedBelowAll(_, _)
placed(statements, depth) ==
    IF Len(statements) = 0 THEN <<>>
    ELSE <<[node |-> statements[1], depth |-> depth]>>
         \o placedBelow(statements[1], depth)
         \o placed(Tail(statements), depth)

placedBelow(node, depth) ==
    placed(statementsAt(node, "properties"), depth + 1)
    \o (IF "methods" \in DOMAIN node
        THEN placedBelowAll(node.methods, depth + 1) ELSE <<>>)
    \o (IF isLambda(node) THEN <<>> ELSE placed(statementsAt(node, "body"), depth + 1))
    \o placed(statementsAt(node, "consequent"), depth + 1)
    \o placed(statementsAt(node, "alternate"), depth + 1)
    \o (IF "alternate" \in DOMAIN node /\ node.alternate.type = "IfStatement"
        THEN placedBelow(node.alternate, depth) ELSE <<>>)
    \o placed(statementsAt(node, "tryBlock"), depth + 1)
    \o (IF "handlers" \in DOMAIN node
        THEN placedBelowAll(node.handlers, depth) ELSE <<>>)
    \o placed(statementsAt(node, "finallyBlock"), depth + 1)

placedBelowAll(nodes, depth) ==
    IF Len(nodes) = 0 THEN <<>>
    ELSE placedBelow(nodes[1], depth) \o placedBelowAll(Tail(nodes), depth)

\* generateStatement leaves indentLevel as it found it, and the text it
\* returns starts with two spaces for each block around the statement and is
\* a line of the emitted text
Indented(statement, text) ==
    /\ generateStatement(statement.node, statement.depth).indentLevel
           = statement.depth
    /\ generateStatement(statement.node, statement.depth).text # ""
       => /\ leadingSpaces(generateStatement(statement.node, statement.depth).text)
                 = 2 * statement.depth
          /\ Contains(text,
                      (IF statement.depth > 0 THEN "\n" ELSE "")
                      \o generateStatement(statement.node, statement.depth).text)

\* C29: indentLevel is never negative: each call of generateStatement with a
\* statement nested in k blocks returns with indentLevel = k, as it was at
\* entry, so it is 0 after the last statement of the Program; the text of
\* the statement starts with exactly 2 * k spaces.
C29_IndentLevel ==
    Transpiled
    => /\ generateBody(parser.ret.body, "", 0).indentLevel = 0
       /\ \A k \in 1..Len(placed(parser.ret.body, 0)) :
              Indented(placed(parser.ret.body, 0)[k], output.text)

\* a statement inside three blocks was emitted
C29_Witness ==
    /\ Transpiled
    /\ \E k \in 1..Len(placed(parser.ret.body, 0)) :
           /\ placed(parser.ret.body, 0)[k].depth = 3
           /\ placed(parser.ret.body, 0)[k].node.type = "ExpressionStatement"
           /\ Contains(output.text, "\n      d;\n")

====
